---------------------------- MODULE Spec2Model ----------------------------
(***************************************************************************)
(* Model of the pipeline inspection application: the defect correlation   *)
(* engine compare_defects (multi_year_analysis.py) with the results        *)
(* display that consumes its result (analysis_layout.py), and the          *)
(* processing of an upload into a joints and a defects table               *)
(* (file_processing.py, data_processing.py, utils.py).                     *)
(*                                                                         *)
(* Conventions                                                             *)
(*   - An optional value (Python None, pandas NaN) is a sequence of length *)
(*     0; a present value v is <<v>>.                                      *)
(*   - A table (DataFrame) is [columns |-> set of column names,            *)
(*     rows |-> sequence of rows]; a row is a function from the table's    *)
(*     columns to cell values, so a column the table lacks has no cell.    *)
(*   - Distances and the tolerance are integers (a fixed length unit);     *)
(*     quotients (rates, percentages, means) are exact fractions           *)
(*     <<numerator, denominator>> with a positive denominator.             *)
(***************************************************************************)
EXTENDS Integers, Sequences, FiniteSets, TLC

VARIABLES
    old_defects_df,     \* argument: defects table of the earlier inspection
    new_defects_df,     \* argument: defects table of the later inspection
    old_year,           \* argument: optional year
    new_year,           \* argument: optional year
    distance_tolerance, \* argument
    pc,                 \* position in compare_defects / its caller
    calculate_growth,   \* local flag
    year_diff,          \* local, bound only when calculate_growth
    has_depth_data,     \* local flag
    has_wt_data,        \* local flag
    pos,                \* iterrows position in new_df (1-based row number)
    matched_old,        \* set of consumed old defect ids
    matched_new,        \* set of consumed new defect ids
    matches,            \* list of match_data dicts
    results,            \* optional: the returned dictionary
    error,              \* optional: message of the raised ValueError
    display,            \* outcome of create_comparison_results
    merged_view,        \* optional: the rows create_matching_debug_view returned
    standardized_df,    \* process_data: the uploaded table, columns mapped
    sort_order,         \* the row order sort_values gives the table
    split_pc,           \* position in process_data / process_pipeline_data
    returned,           \* the (joints_df, defects_df) pairs returned so far
    split_error,        \* optional: the KeyError raised by process_pipeline_data
    clock_value,        \* the argument of the next call of a clock codec function
    clock_kind,         \* its type: "str" or "float" (either may be null)
    clock_log,          \* the calls of the codec functions made so far
    datasets,           \* the dict the callbacks were registered with
    app_datasets,       \* the dict the global name datasets of app.py names
    rebound,            \* the global name has been bound to another dict
    upload_info,        \* the store "upload-info": optional, the selected year
    selectors,          \* the options of the earlier and later year selectors
    callback_output     \* the output of the last callback of the store

\* the state of a comparison
compare_vars == << old_defects_df, new_defects_df, old_year, new_year,
                   distance_tolerance, pc, calculate_growth, year_diff,
                   has_depth_data, has_wt_data, pos, matched_old, matched_new,
                   matches, results, error, display, merged_view >>

\* the state of the processing of an upload
process_vars == << standardized_df, sort_order, split_pc, returned, split_error >>

\* the state of the calls of the clock codec
codec_vars == << clock_value, clock_kind, clock_log >>

\* the state of the dataset store
store_vars == << datasets, app_datasets, rebound, upload_info, selectors,
                 callback_output >>

vars == << compare_vars, process_vars, codec_vars, store_vars >>

-----------------------------------------------------------------------------
(* Optional values *)

None == << >>

NaN == << >>

Some(v) == << v >>

IsNone(o) == Len(o) = 0

Val(o) == o[1]

-----------------------------------------------------------------------------
(* Column names used by compare_defects *)

COL_DIST == "log dist. [m]"

COL_TYPE == "component / anomaly identification"

COL_DEPTH == "depth [%]"

COL_WT == "wt nom [mm]"

RequiredColumns == << COL_DIST, COL_TYPE >>

AllColumns == { COL_DIST, COL_TYPE, COL_DEPTH, COL_WT }

-----------------------------------------------------------------------------
(* Arithmetic as the code performs it.  A fraction is <<n, d>>, d > 0.     *)

Abs(x) == IF x < 0 THEN -x ELSE x

Frac(n, d) == IF d < 0 THEN << -n, -d >> ELSE << n, d >>

FracEq(a, b) == a[1] * b[2] = b[1] * a[2]

FracLt(a, b) == a[1] * b[2] < b[1] * a[2]

FracAdd(a, b) ==
    IF a[2] = b[2] THEN << a[1] + b[1], a[2] >>
    ELSE << a[1] * b[2] + b[1] * a[2], a[2] * b[2] >>

\* Optional fractions compare equal when both are missing or both are the
\* same number.
OptFracEq(a, b) ==
    IF IsNone(a) \/ IsNone(b) THEN IsNone(a) /\ IsNone(b)
    ELSE FracEq(Val(a), Val(b))

\* new_depth - old_depth on cells that may be NaN
Minus(a, b) == IF IsNone(a) \/ IsNone(b) THEN NaN ELSE Some(Val(a) - Val(b))

\* x / d for an optional integer x and an integer d > 0
Over(x, d) == IF IsNone(x) THEN NaN ELSE Some(Frac(Val(x), d))

\* variant: a zero change counts as negative
NegativeOrZero(x) == IF IsNone(x) THEN FALSE ELSE Val(x) <= 0

\* x < 0 on a cell that may be NaN (a comparison with NaN is False)
Negative(x) == IF IsNone(x) THEN FALSE ELSE Val(x) < 0

\* variant: the wall thickness of the old row alone
DepthMmOldWt(depth, old_wt, new_wt) ==
    IF IsNone(depth) THEN NaN ELSE Some(Frac(Val(depth) * old_wt, 100))

\* depth * avg_wt / 100 with avg_wt = (old_wt + new_wt) / 2
DepthMm(depth, old_wt, new_wt) ==
    IF IsNone(depth) THEN NaN ELSE Some(Frac(Val(depth) * (old_wt + new_wt), 200))

\* a - b on optional fractions
FracMinus(a, b) ==
    IF IsNone(a) \/ IsNone(b) THEN NaN
    ELSE Some(FracAdd(Val(a), << -(Val(b)[1]), Val(b)[2] >>))

\* a / d on an optional fraction
FracOver(a, d) == IF IsNone(a) THEN NaN ELSE Some(Frac(Val(a)[1], Val(a)[2] * d))

-----------------------------------------------------------------------------
(* pandas helpers *)

Range(s) == { s[k] : k \in DOMAIN s }

\* the subsequence of s at the positions in keep, in order
RECURSIVE SelectPos(_, _, _)
SelectPos(s, keep, k) ==
    IF k > Len(s) THEN << >>
    ELSE IF k \in keep THEN << s[k] >> \o SelectPos(s, keep, k + 1)
    ELSE SelectPos(s, keep, k + 1)

\* Series.dropna() of a column of optional values, as a sequence of values
RECURSIVE DropNa(_)
DropNa(s) ==
    IF s = << >> THEN << >>
    ELSE IF IsNone(Head(s)) THEN DropNa(Tail(s))
    ELSE << Val(Head(s)) >> \o DropNa(Tail(s))

RECURSIVE FracSum(_)
FracSum(s) == IF s = << >> THEN << 0, 1 >> ELSE FracAdd(Head(s), FracSum(Tail(s)))

\* Series.mean(): missing values are skipped; NaN when nothing is left
Mean(s) ==
    LET v == DropNa(s) IN
    IF v = << >> THEN NaN
    ELSE Some(Frac(FracSum(v)[1], FracSum(v)[2] * Len(v)))

\* Series.max(): missing values are skipped; NaN when nothing is left
Max(s) ==
    LET v == DropNa(s) IN
    IF v = << >> THEN NaN
    ELSE Some(CHOOSE m \in Range(v) : \A x \in Range(v) : ~FracLt(m, x))

\* the column c of a list of dicts
Column(rows, c) == [ k \in DOMAIN rows |-> rows[k][c] ]

-----------------------------------------------------------------------------
(* compare_defects, multi_year_analysis.py *)

\* variant: a later year that merely is not earlier
CalculateGrowthNotEarlier(oy, ny) == ~IsNone(oy) /\ ~IsNone(ny) /\ Val(ny) >= Val(oy)

\* calculate_growth (lines 27-29)
CalculateGrowth(oy, ny) == ~IsNone(oy) /\ ~IsNone(ny) /\ Val(ny) > Val(oy)

\* year_diff (line 30); the name stays unbound when growth is not calculated
YearDiff(oy, ny) == IF CalculateGrowth(oy, ny) THEN Some(Val(ny) - Val(oy)) ELSE None

\* has_depth_data (line 33)
HasDepthData(old_df, new_df) == COL_DEPTH \in old_df.columns /\ COL_DEPTH \in new_df.columns

\* has_wt_data (line 34)
HasWtData(old_df, new_df) == COL_WT \in old_df.columns /\ COL_WT \in new_df.columns

\* the positions of RequiredColumns that one of the tables lacks (lines 37-38)
MissingColumns(old_df, new_df) ==
    { n \in DOMAIN RequiredColumns :
        RequiredColumns[n] \notin old_df.columns \/ RequiredColumns[n] \notin new_df.columns }

\* variant: the message always names the first required column
FirstColumnNamed(old_df, new_df) == RequiredColumns[1]

\* the first column the check loop finds missing (lines 37-39)
FirstMissingColumn(old_df, new_df) ==
    LET miss == MissingColumns(old_df, new_df)
        n == CHOOSE n \in miss : \A m \in miss : n <= m
    IN RequiredColumns[n]

\* df['defect_id'] = range(len(df)) (lines 42-43)
WithDefectId(df) ==
    [ columns |-> df.columns \cup { "defect_id" },
      rows |-> [ k \in DOMAIN df.rows |-> df.rows[k] @@ ("defect_id" :> (k - 1)) ] ]

\* variant: the mask without the not-yet-matched condition
MaskIgnoringConsumed(old_rows, new_defect, consumed, tolerance) ==
    { k \in DOMAIN old_rows :
        Abs(old_rows[k][COL_DIST] - new_defect[COL_DIST]) <= tolerance }

\* variant: the mask with a strict comparison against the tolerance
MaskStrict(old_rows, new_defect, consumed, tolerance) ==
    { k \in DOMAIN old_rows :
        /\ old_rows[k]["defect_id"] \notin consumed
        /\ Abs(old_rows[k][COL_DIST] - new_defect[COL_DIST]) < tolerance }

\* variant: the mask with the same-type condition (line 52)
MaskSameType(old_rows, new_defect, consumed, tolerance) ==
    { k \in DOMAIN old_rows :
        /\ old_rows[k][COL_TYPE] = new_defect[COL_TYPE]
        /\ old_rows[k]["defect_id"] \notin consumed
        /\ Abs(old_rows[k][COL_DIST] - new_defect[COL_DIST]) <= tolerance }

\* the mask of lines 51-57: positions of the old rows that are not yet
\* matched and lie within the tolerance of the new defect
Mask(old_rows, new_defect, consumed, tolerance) ==
    { k \in DOMAIN old_rows :
        /\ old_rows[k]["defect_id"] \notin consumed
        /\ Abs(old_rows[k][COL_DIST] - new_defect[COL_DIST]) <= tolerance }

\* dists of lines 62-63, for a position of potential_matches
Dist(old_rows, new_defect, k) == Abs(old_rows[k][COL_DIST] - new_defect[COL_DIST])

\* variant: the last position holding the minimum
IdxMinLast(old_rows, new_defect, mask) ==
    CHOOSE k \in mask :
        \A j \in mask :
            \/ Dist(old_rows, new_defect, k) < Dist(old_rows, new_defect, j)
            \/ Dist(old_rows, new_defect, k) = Dist(old_rows, new_defect, j) /\ k >= j

\* dists.idxmin() (line 64): the first position holding the minimum
IdxMin(old_rows, new_defect, mask) ==
    CHOOSE k \in mask :
        \A j \in mask :
            \/ Dist(old_rows, new_defect, k) < Dist(old_rows, new_defect, j)
            \/ Dist(old_rows, new_defect, k) = Dist(old_rows, new_defect, j) /\ k <= j

\* the (old_defect_id, new_defect_id) pairs the loop of lines 49-111 records
\* from its iteration j on, given the old ids consumed so far
RECURSIVE PassFrom(_, _, _, _, _)
PassFrom(old_rows, new_rows, tolerance, j, consumed) ==
    IF j > Len(new_rows) THEN { }
    ELSE LET mask == Mask(old_rows, new_rows[j], consumed, tolerance)
         IN IF mask = { } THEN PassFrom(old_rows, new_rows, tolerance, j + 1, consumed)
            ELSE LET closest_match == old_rows[IdxMin(old_rows, new_rows[j], mask)]
                 IN { << closest_match["defect_id"], new_rows[j]["defect_id"] >> }
                      \cup PassFrom(old_rows, new_rows, tolerance, j + 1,
                                    consumed \cup { closest_match["defect_id"] })

\* match_data of lines 68-75
BasicMatchData(new_defect, closest_match) ==
    [ new_defect_id |-> new_defect["defect_id"],
      old_defect_id |-> closest_match["defect_id"],
      distance_diff |-> Abs(closest_match[COL_DIST] - new_defect[COL_DIST]),
      log_dist |-> new_defect[COL_DIST],
      old_log_dist |-> closest_match[COL_DIST],
      defect_type |-> new_defect[COL_TYPE] ]

\* the update of lines 79-89
DepthMatchData(new_defect, closest_match, yd) ==
    LET old_depth == closest_match[COL_DEPTH]
        new_depth == new_defect[COL_DEPTH]
    IN [ old_depth_pct |-> old_depth,
         new_depth_pct |-> new_depth,
         depth_change_pct |-> Minus(new_depth, old_depth),
         growth_rate_pct_per_year |-> Over(Minus(new_depth, old_depth), yd),
         is_negative_growth |-> Negative(Minus(new_depth, old_depth)) ]

\* the update of lines 93-107
MmMatchData(new_defect, closest_match, yd) ==
    LET old_wt == closest_match[COL_WT]
        new_wt == new_defect[COL_WT]
        old_depth_mm == DepthMm(closest_match[COL_DEPTH], old_wt, new_wt)
        new_depth_mm == DepthMm(new_defect[COL_DEPTH], old_wt, new_wt)
    IN [ old_depth_mm |-> old_depth_mm,
         new_depth_mm |-> new_depth_mm,
         depth_change_mm |-> FracMinus(new_depth_mm, old_depth_mm),
         growth_rate_mm_per_year |-> FracOver(FracMinus(new_depth_mm, old_depth_mm), yd) ]

\* match_data as appended at line 109
MatchData(new_defect, closest_match, growth, depth, wt, yd) ==
    IF growth /\ depth
    THEN IF wt
         THEN BasicMatchData(new_defect, closest_match)
                @@ DepthMatchData(new_defect, closest_match, Val(yd))
                @@ MmMatchData(new_defect, closest_match, Val(yd))
         ELSE BasicMatchData(new_defect, closest_match)
                @@ DepthMatchData(new_defect, closest_match, Val(yd))
    ELSE BasicMatchData(new_defect, closest_match)

\* columns of lines 114-122
MatchColumns(growth, depth, wt) ==
    { "new_defect_id", "old_defect_id", "distance_diff", "log_dist", "old_log_dist", "defect_type" }
    \cup (IF growth /\ depth
          THEN { "old_depth_pct", "new_depth_pct", "depth_change_pct",
                 "growth_rate_pct_per_year", "is_negative_growth" }
               \cup (IF wt THEN { "old_depth_mm", "new_depth_mm", "depth_change_mm",
                                  "growth_rate_mm_per_year" }
                     ELSE { })
          ELSE { })

\* variant: the selection without the negation
NewDefectsMatched(new_rows, consumed) ==
    SelectPos(new_rows, { k \in DOMAIN new_rows : new_rows[k]["defect_id"] \in consumed }, 1)

\* new_df.loc[~new_df['defect_id'].isin(matched_new)] (line 126)
NewDefects(new_rows, consumed) ==
    SelectPos(new_rows, { k \in DOMAIN new_rows : new_rows[k]["defect_id"] \notin consumed }, 1)

\* variant: the quotient without the test of the divisor
PercentUnguarded(x, total) == Frac(x * 100, total)

\* x / total * 100 if total else 0 (lines 133-134)
Percent(x, total) == IF total # 0 THEN Frac(x * 100, total) ELSE << 0, 1 >>

\* value_counts of the anomaly type over the unmatched rows with the
\* percentage column (lines 137-144): value_counts leaves out the rows whose
\* type is missing, the divisor is the number of all unmatched rows; the
\* row order of the frame is not kept
TypeDistribution(new_defects) ==
    { [ defect_type |-> t,
        count |-> Cardinality({ k \in DOMAIN new_defects : new_defects[k][COL_TYPE] = t }),
        percentage |-> Frac(Cardinality({ k \in DOMAIN new_defects : new_defects[k][COL_TYPE] = t }) * 100,
                            Len(new_defects)) ]
      : t \in { new_defects[k][COL_TYPE] : k \in DOMAIN new_defects } \ { NaN } }

\* variant: only Matches with a strictly positive change are kept
PositiveGrowthStrict(rows) ==
    SelectPos(rows, { k \in DOMAIN rows :
                        ~IsNone(rows[k].depth_change_pct) /\ Val(rows[k].depth_change_pct) > 0 }, 1)

\* matches_df[~matches_df['is_negative_growth']] (line 154)
PositiveGrowth(rows) ==
    SelectPos(rows, { k \in DOMAIN rows : ~rows[k].is_negative_growth }, 1)

\* the dictionary of lines 156-163
PctGrowthStats(rows) ==
    LET negative_growth_count == Cardinality({ k \in DOMAIN rows : rows[k].is_negative_growth })
        positive_growth == PositiveGrowth(rows)
    IN [ total_matched_defects |-> Len(rows),
         negative_growth_count |-> negative_growth_count,
         pct_negative_growth |-> Percent(negative_growth_count, Len(rows)),
         avg_growth_rate_pct |-> Mean(Column(rows, "growth_rate_pct_per_year")),
         avg_positive_growth_rate_pct |->
             IF Len(positive_growth) > 0
             THEN Mean(Column(positive_growth, "growth_rate_pct_per_year"))
             ELSE Some(<< 0, 1 >>),
         max_growth_rate_pct |->
             IF Len(positive_growth) > 0
             THEN Max(Column(positive_growth, "growth_rate_pct_per_year"))
             ELSE Some(<< 0, 1 >>) ]

\* the update of lines 166-171
MmGrowthStats(rows) ==
    LET positive_growth == PositiveGrowth(rows)
    IN [ avg_growth_rate_mm |-> Mean(Column(rows, "growth_rate_mm_per_year")),
         avg_positive_growth_rate_mm |->
             IF Len(positive_growth) > 0
             THEN Mean(Column(positive_growth, "growth_rate_mm_per_year"))
             ELSE Some(<< 0, 1 >>),
         max_growth_rate_mm |->
             IF Len(positive_growth) > 0
             THEN Max(Column(positive_growth, "growth_rate_mm_per_year"))
             ELSE Some(<< 0, 1 >>) ]

\* variant: the statistics are built without asking for a Match
GrowthStatsWithoutMatches(rows, growth, depth, wt) ==
    IF growth /\ depth
    THEN IF wt THEN Some(PctGrowthStats(rows) @@ MmGrowthStats(rows))
         ELSE Some(PctGrowthStats(rows))
    ELSE None

\* growth_stats (lines 147-171)
GrowthStats(rows, growth, depth, wt) ==
    IF growth /\ depth /\ rows # << >>
    THEN IF wt THEN Some(PctGrowthStats(rows) @@ MmGrowthStats(rows))
         ELSE Some(PctGrowthStats(rows))
    ELSE None

\* the returned dictionary (lines 124-186)
Results(new_rows, rows, consumed_new, growth, depth, wt) ==
    LET new_defects == NewDefects(new_rows, consumed_new)
        total == Len(new_rows)
        common == Len(rows)
        new_cnt == Len(new_defects)
    IN [ matches_df |-> [ columns |-> MatchColumns(growth, depth, wt), rows |-> rows ],
         new_defects |-> new_defects,
         common_defects_count |-> common,
         new_defects_count |-> new_cnt,
         total_defects |-> total,
         pct_common |-> Percent(common, total),
         pct_new |-> Percent(new_cnt, total),
         defect_type_distribution |-> TypeDistribution(new_defects),
         growth_stats |-> GrowthStats(rows, growth, depth, wt),
         has_depth_data |-> depth,
         has_wt_data |-> wt,
         calculate_growth |-> growth ]

-----------------------------------------------------------------------------
(* create_comparison_results, analysis_layout.py *)

\* The growth-rate tab (lines 668-713) subscripts growth_stats whenever
\* has_depth_data and calculate_growth are set; subscripting None raises
\* TypeError.
GrowthTabRaises(res) ==
    res.has_depth_data /\ res.calculate_growth /\ IsNone(res.growth_stats)

-----------------------------------------------------------------------------
(* The steps of one comparison *)

\* lines 22-39 when a required column is missing: the ValueError is raised
RaiseMissingColumn ==
    /\ pc = "start"
    /\ MissingColumns(old_defects_df, new_defects_df) # { }
    /\ calculate_growth' = CalculateGrowth(old_year, new_year)
    /\ year_diff' = YearDiff(old_year, new_year)
    /\ has_depth_data' = HasDepthData(old_defects_df, new_defects_df)
    /\ has_wt_data' = HasWtData(old_defects_df, new_defects_df)
    /\ error' = Some([ exception |-> "ValueError",
                       column |-> FirstMissingColumn(old_defects_df, new_defects_df) ])
    /\ pc' = "raised"
    /\ UNCHANGED << old_defects_df, new_defects_df, old_year, new_year, distance_tolerance,
                    pos, matched_old, matched_new, matches, results, display >>
    /\ UNCHANGED << merged_view, process_vars, codec_vars, store_vars >>

\* lines 22-47 when the columns are there: flags, ids, empty match state
AssignIds ==
    /\ pc = "start"
    /\ MissingColumns(old_defects_df, new_defects_df) = { }
    /\ calculate_growth' = CalculateGrowth(old_year, new_year)
    /\ year_diff' = YearDiff(old_year, new_year)
    /\ has_depth_data' = HasDepthData(old_defects_df, new_defects_df)
    /\ has_wt_data' = HasWtData(old_defects_df, new_defects_df)
    /\ matched_old' = { }
    /\ matched_new' = { }
    /\ matches' = << >>
    /\ pos' = 1
    /\ pc' = "matching"
    /\ UNCHANGED << old_defects_df, new_defects_df, old_year, new_year, distance_tolerance,
                    results, error, display >>
    /\ UNCHANGED << merged_view, process_vars, codec_vars, store_vars >>

\* variant: the loop visits the new table from its last row to its first
MatchStepLastRowFirst ==
    /\ pc = "matching"
    /\ pos <= Len(new_defects_df.rows)
    /\ LET old_rows == WithDefectId(old_defects_df).rows
           new_defect == WithDefectId(new_defects_df).rows[Len(new_defects_df.rows) + 1 - pos]
           mask == Mask(old_rows, new_defect, matched_old, distance_tolerance)
       IN IF mask # { }
          THEN LET closest_match == old_rows[IdxMin(old_rows, new_defect, mask)]
               IN /\ matches' = Append(matches,
                                       MatchData(new_defect, closest_match, calculate_growth,
                                                 has_depth_data, has_wt_data, year_diff))
                  /\ matched_old' = matched_old \cup { closest_match["defect_id"] }
                  /\ matched_new' = matched_new \cup { new_defect["defect_id"] }
          ELSE UNCHANGED << matches, matched_old, matched_new >>
    /\ pos' = pos + 1
    /\ UNCHANGED << old_defects_df, new_defects_df, old_year, new_year, distance_tolerance,
                    pc, calculate_growth, year_diff, has_depth_data, has_wt_data,
                    results, error, display >>
    /\ UNCHANGED << merged_view, process_vars, codec_vars, store_vars >>

\* one iteration of the loop of lines 49-111
MatchStep ==
    /\ pc = "matching"
    /\ pos <= Len(new_defects_df.rows)
    /\ LET old_rows == WithDefectId(old_defects_df).rows
           new_defect == WithDefectId(new_defects_df).rows[pos]
           mask == Mask(old_rows, new_defect, matched_old, distance_tolerance)
       IN IF mask # { }
          THEN LET closest_match == old_rows[IdxMin(old_rows, new_defect, mask)]
               IN /\ matches' = Append(matches,
                                       MatchData(new_defect, closest_match, calculate_growth,
                                                 has_depth_data, has_wt_data, year_diff))
                  /\ matched_old' = matched_old \cup { closest_match["defect_id"] }
                  /\ matched_new' = matched_new \cup { new_defect["defect_id"] }
          ELSE UNCHANGED << matches, matched_old, matched_new >>
    /\ pos' = pos + 1
    /\ UNCHANGED << old_defects_df, new_defects_df, old_year, new_year, distance_tolerance,
                    pc, calculate_growth, year_diff, has_depth_data, has_wt_data,
                    results, error, display >>
    /\ UNCHANGED << merged_view, process_vars, codec_vars, store_vars >>

\* lines 113-186 after the loop: the result is built and returned
BuildResults ==
    /\ pc = "matching"
    /\ pos > Len(new_defects_df.rows)
    /\ results' = Some(Results(WithDefectId(new_defects_df).rows, matches, matched_new,
                               calculate_growth, has_depth_data, has_wt_data))
    /\ pc' = "returned"
    /\ UNCHANGED << old_defects_df, new_defects_df, old_year, new_year, distance_tolerance,
                    calculate_growth, year_diff, has_depth_data, has_wt_data, pos,
                    matched_old, matched_new, matches, error, display >>
    /\ UNCHANGED << merged_view, process_vars, codec_vars, store_vars >>

\* create_comparison_results on the returned dictionary
CreateComparisonResults ==
    /\ pc = "returned"
    /\ display' = IF GrowthTabRaises(Val(results)) THEN "TypeError" ELSE "rendered"
    /\ pc' = "displayed"
    /\ UNCHANGED << old_defects_df, new_defects_df, old_year, new_year, distance_tolerance,
                    calculate_growth, year_diff, has_depth_data, has_wt_data, pos,
                    matched_old, matched_new, matches, results, error >>
    /\ UNCHANGED << merged_view, process_vars, codec_vars, store_vars >>

\* the columns create_matching_debug_view copies besides the distance and
\* the type (lines 735-740); of these the tables of the model have the depth
ExtraColumns(old_df, new_df) == { COL_DEPTH } \cap old_df.columns \cap new_df.columns

\* variant: the search of the view at the tolerance itself
NearbyOldWithinTolerance(old_rows, new_defect, tolerance) ==
    { k \in DOMAIN old_rows :
        Abs(old_rows[k][COL_DIST] - new_defect[COL_DIST]) <= tolerance }

\* nearby_old of lines 748-751: the positions of the old rows within twice
\* the tolerance of the new defect (the same-type condition is commented
\* out)
NearbyOld(old_rows, new_defect, tolerance) ==
    { k \in DOMAIN old_rows :
        Abs(old_rows[k][COL_DIST] - new_defect[COL_DIST]) <= tolerance * 2 }

\* row of lines 755-768
DebugRow(new_defect, old_defect, extra, tolerance) ==
    LET row == [ new_dist |-> new_defect[COL_DIST],
                 old_dist |-> old_defect[COL_DIST],
                 distance_diff |-> Abs(new_defect[COL_DIST] - old_defect[COL_DIST]),
                 defect_type |-> new_defect[COL_TYPE],
                 would_match |->
                     Abs(new_defect[COL_DIST] - old_defect[COL_DIST]) <= tolerance ]
    IN IF COL_DEPTH \in extra
       THEN row @@ [ new_depth |-> new_defect[COL_DEPTH], old_depth |-> old_defect[COL_DEPTH] ]
       ELSE row

\* the rows the loop of lines 746-770 appends from the new row j on
RECURSIVE MergedViewFrom(_, _, _, _)
MergedViewFrom(old_df, new_df, tolerance, j) ==
    IF j > Len(new_df.rows) THEN << >>
    ELSE LET new_defect == new_df.rows[j]
             nearby_old == SelectPos(old_df.rows,
                                     NearbyOld(old_df.rows, new_defect, tolerance), 1)
         IN [ k \in DOMAIN nearby_old |->
                DebugRow(new_defect, nearby_old[k], ExtraColumns(old_df, new_df), tolerance) ]
              \o MergedViewFrom(old_df, new_df, tolerance, j + 1)

\* create_matching_debug_view, lines 722-773
create_matching_debug_view(old_df, new_df, tolerance) ==
    MergedViewFrom(old_df, new_df, tolerance, 1)

\* a call of create_matching_debug_view with the tables and the tolerance
\* of the comparison made
CreateMatchingDebugView ==
    /\ pc \in { "returned", "displayed" }
    /\ IsNone(merged_view)
    /\ merged_view' = Some(create_matching_debug_view(old_defects_df, new_defects_df,
                                                      distance_tolerance))
    /\ UNCHANGED << old_defects_df, new_defects_df, old_year, new_year, distance_tolerance,
                    pc, calculate_growth, year_diff, has_depth_data, has_wt_data, pos,
                    matched_old, matched_new, matches, results, error, display >>
    /\ UNCHANGED << process_vars, codec_vars, store_vars >>

Next ==
    \/ RaiseMissingColumn
    \/ AssignIds
    \/ MatchStep
    \/ BuildResults
    \/ CreateComparisonResults
    \/ CreateMatchingDebugView

-----------------------------------------------------------------------------
(* Inputs *)

\* bounds of the matching inputs
MaxOld == 2

MaxNew == 2

MaxDist == 3

MaxTol == 1

\* bound of the growth inputs
MaxYear == 3

Distances == 0 .. MaxDist

Tolerances == 0 .. MaxTol

Years == { None } \cup { Some(y) : y \in 1 .. MaxYear }

\* a row over the columns cols
Row(cols, d, t, p, w) ==
    [ c \in cols |->
        CASE c = COL_DIST -> d
          [] c = COL_TYPE -> t
          [] c = COL_DEPTH -> p
          [] OTHER -> w ]

\* the tables with columns cols and at most n rows, cells drawn from the
\* given sets
Tables(cols, n, D, T, P, W) ==
    LET rows == { Row(cols, d, t, p, w) : d \in D, t \in T, p \in P, w \in W }
    IN { [ columns |-> cols, rows |-> r ] : r \in UNION { [ 1 .. k -> rows ] : k \in 0 .. n } }

\* the process_data state while no upload is processed
NoUpload ==
    /\ standardized_df = [ columns |-> { }, rows |-> << >> ]
    /\ sort_order = << >>
    /\ split_pc = "idle"
    /\ returned = << >>
    /\ split_error = None

\* the codec state while no codec function is called
NoCodecCall ==
    /\ clock_value = None
    /\ clock_kind = "none"
    /\ clock_log = << >>

\* the store state of a started application, app.py lines 50 and 302-303
NoDatasets ==
    /\ datasets = << >>
    /\ app_datasets = << >>
    /\ rebound = FALSE
    /\ upload_info = None
    /\ selectors = [ earlier |-> { }, later |-> { } ]
    /\ callback_output = [ callback |-> "none", args |-> << >>, raised |-> None, years |-> { } ]

\* the state at the call of compare_defects
Call(old_df, new_df, oy, ny, tolerance) ==
    /\ old_defects_df = old_df
    /\ new_defects_df = new_df
    /\ old_year = oy
    /\ new_year = ny
    /\ distance_tolerance = tolerance
    /\ pc = "start"
    /\ calculate_growth = FALSE
    /\ year_diff = None
    /\ has_depth_data = FALSE
    /\ has_wt_data = FALSE
    /\ pos = 0
    /\ matched_old = { }
    /\ matched_new = { }
    /\ matches = << >>
    /\ results = None
    /\ error = None
    /\ display = "none"
    /\ merged_view = None
    /\ NoUpload
    /\ NoCodecCall
    /\ NoDatasets

\* calls whose tables lack a column compare_defects requires
MissingColumnCalls ==
    \E oc \in SUBSET { COL_DIST, COL_TYPE }, nc \in SUBSET { COL_DIST, COL_TYPE } :
        /\ oc # { COL_DIST, COL_TYPE } \/ nc # { COL_DIST, COL_TYPE }
        /\ \E old_df \in Tables(oc, 1, Distances, { Some("corrosion") }, { NaN }, { 0 }),
              new_df \in Tables(nc, 1, Distances, { Some("corrosion") }, { NaN }, { 0 }),
              tolerance \in Tolerances :
               Call(old_df, new_df, None, None, tolerance)

\* calls on tables of distances and types only, no years
MatchCalls ==
    \E old_df \in Tables({ COL_DIST, COL_TYPE }, MaxOld, Distances, { Some("corrosion") }, { NaN }, { 0 }),
       new_df \in Tables({ COL_DIST, COL_TYPE }, MaxNew, Distances, { Some("corrosion") }, { NaN }, { 0 }),
       tolerance \in Tolerances :
        Call(old_df, new_df, None, None, tolerance)

\* cells of the type column: a missing cell or one of two types
AnomalyTypes == { NaN, Some("corrosion"), Some("dent") }

\* calls on tables whose rows differ in type; an old defect lies at
\* distance 0 or 1, every new defect at 0
TypeCalls ==
    \E old_df \in Tables({ COL_DIST, COL_TYPE }, MaxOld, { 0, 1 }, AnomalyTypes, { NaN }, { 0 }),
       new_df \in Tables({ COL_DIST, COL_TYPE }, MaxNew, { 0 }, AnomalyTypes, { NaN }, { 0 }),
       tolerance \in Tolerances :
        Call(old_df, new_df, None, None, tolerance)

Init == MatchCalls \/ TypeCalls \/ MissingColumnCalls

Spec == Init /\ [][Next]_vars

\* depth cells of the growth inputs: the old survey reports 20 % or nothing,
\* the new survey a smaller, an equal or a larger depth, or nothing
OldDepths == { NaN, Some(20) }

NewDepths == { NaN, Some(10), Some(20), Some(30) }

GrowthColumnSets == { { COL_DIST, COL_TYPE }, { COL_DIST, COL_TYPE, COL_DEPTH } }

\* calls with optional years and an optional depth column; every old defect
\* lies at distance 0, a new defect at 0 or 1, and the tolerance is 0
GrowthCalls ==
    \E oc \in GrowthColumnSets, nc \in GrowthColumnSets :
        \E old_df \in Tables(oc, MaxOld, { 0 }, { Some("corrosion") }, OldDepths, { 0 }),
           new_df \in Tables(nc, MaxNew, { 0, 1 }, { Some("corrosion") }, NewDepths, { 0 }),
           oy \in Years, ny \in Years :
            Call(old_df, new_df, oy, ny, 0)

\* calls on tables that both report depth, the old one with a wall
\* thickness of 10 mm, the new one with or without a wall-thickness column
WtCalls ==
    \E nc \in { { COL_DIST, COL_TYPE, COL_DEPTH }, AllColumns } :
        \E old_df \in Tables(AllColumns, MaxOld, { 0 }, { Some("corrosion") }, { Some(20) }, { 10 }),
           new_df \in Tables(nc, MaxNew, { 0, 1 }, { Some("corrosion") }, { NaN, Some(10), Some(30) }, { 10, 14 }),
           oy \in Years, ny \in Years :
            Call(old_df, new_df, oy, ny, 0)

InitGrowth == GrowthCalls \/ WtCalls \/ MissingColumnCalls

SpecGrowth == InitGrowth /\ [][Next]_vars

-----------------------------------------------------------------------------
(* standardize_surface_location, utils.py.  A text cell is an optional     *)
(* string; the texts are those of SurfaceTexts.                            *)

\* str.strip() followed by str.upper(), on the texts of the model
StripUpper(text) ==
    CASE text = "" -> ""
      [] text = " " -> ""
      [] text = " Internal " -> "INTERNAL"
      [] text = "i" -> "I"
      [] text = "yes " -> "YES"
      [] text = "interne" -> "INTERNE"
      [] text = " e" -> "E"
      [] text = "External" -> "EXTERNAL"
      [] text = "no" -> "NO"
      [] text = "Non Int" -> "NON INT"
      [] text = "externe" -> "EXTERNE"
      [] text = "unknown" -> "UNKNOWN"
      [] text = " Int. " -> "INT."
      [] OTHER -> text

\* the list of line 69
InternalNames == { "INT", "I", "INTERNAL", "YES", "INTERNE" }

\* the list of line 71
ExternalNames == { "NON-INT", "E", "EXTERNAL", "NO", "NON INT", "EXTERNE" }

\* standardize_surface_location (lines 52-75)
standardize_surface_location(value) ==
    IF IsNone(value) THEN None
    ELSE LET value_str == StripUpper(Val(value))
         IN IF value_str \in InternalNames THEN Some("INT")
            ELSE IF value_str \in ExternalNames THEN Some("NON-INT")
            ELSE value

-----------------------------------------------------------------------------
(* process_pipeline_data, data_processing.py.  In an uploaded table the    *)
(* distance is a number; every other cell is text or missing.              *)

COL_JOINT == "joint number"

COL_JOINT_LENGTH == "joint length [m]"

COL_UP_WELD == "up weld dist. [m]"

COL_CLOCK == "clock"

COL_LENGTH == "length [mm]"

COL_WIDTH == "width [mm]"

COL_SURFACE == "surface location"

\* lines 24-32
numeric_columns ==
    { COL_JOINT, COL_JOINT_LENGTH, COL_WT, COL_UP_WELD, COL_DEPTH, COL_LENGTH, COL_WIDTH }

\* the column list of line 43
joint_columns == { COL_DIST, COL_JOINT, COL_JOINT_LENGTH, COL_WT }

\* variant: the wall thickness is among the columns of the defects table
defect_columns_with_wt ==
    { COL_DIST, COL_TYPE, COL_JOINT, COL_UP_WELD, COL_CLOCK, COL_DEPTH, COL_LENGTH, COL_WIDTH,
      COL_SURFACE, COL_WT }

\* lines 60-70
defect_columns ==
    { COL_DIST, COL_TYPE, COL_JOINT, COL_UP_WELD, COL_CLOCK, COL_DEPTH, COL_LENGTH, COL_WIDTH,
      COL_SURFACE }

\* the regular expression ^\s*$ of line 21, on the texts of the model
IsBlank(text) == text \in { "", " " }

\* pd.to_numeric(errors='coerce') on a text of the model (line 36)
ParseNumber(text) ==
    CASE text = "1" -> Some(1)
      [] text = "2" -> Some(2)
      [] text = "5" -> Some(5)
      [] text = "8" -> Some(8)
      [] text = "10" -> Some(10)
      [] OTHER -> NaN

BlankToNaN(cell) == IF ~IsNone(cell) /\ IsBlank(Val(cell)) THEN NaN ELSE cell

\* df_copy.replace(r'^\s*$', np.nan, regex=True) (line 21)
ReplaceEmptyStrings(t) ==
    [ columns |-> t.columns,
      rows |-> [ k \in DOMAIN t.rows |->
                   [ c \in t.columns |->
                       IF c # COL_DIST THEN BlankToNaN(t.rows[k][c]) ELSE t.rows[k][c] ] ] ]

ToNumeric(cell) == IF IsNone(cell) THEN NaN ELSE ParseNumber(Val(cell))

\* the loop of lines 34-36
ToNumericColumns(t) ==
    [ columns |-> t.columns,
      rows |-> [ k \in DOMAIN t.rows |->
                   [ c \in t.columns |->
                       IF c \in numeric_columns THEN ToNumeric(t.rows[k][c])
                       ELSE t.rows[k][c] ] ] ]

\* the orders of n rows: the bijections of 1 .. n
RowOrders(n) == { p \in [ 1 .. n -> 1 .. n ] : \A a, b \in 1 .. n : a # b => p[a] # p[b] }

\* the orders sort_values('log dist. [m]') may give the rows of t: the
\* distances ascend; the order of rows at the same distance is the sort
\* algorithm's (quicksort, not stable), one fixed order for one table
SortOrders(t) ==
    IF COL_DIST \in t.columns
    THEN { p \in RowOrders(Len(t.rows)) :
             \A a, b \in DOMAIN t.rows : a < b => t.rows[p[a]][COL_DIST] <= t.rows[p[b]][COL_DIST] }
    ELSE { [ k \in DOMAIN t.rows |-> k ] }

\* lines 39-40: the rows in the order of the sort when the table has the
\* distance column
SortValues(t, order) ==
    IF COL_DIST \in t.columns
    THEN [ columns |-> t.columns, rows |-> [ k \in DOMAIN t.rows |-> t.rows[order[k]] ] ]
    ELSE t

\* the rows restricted to the columns cols
Project(rows, cols) == [ k \in DOMAIN rows |-> [ c \in cols |-> rows[k][c] ] ]

\* variant: the last record of a joint number is kept
DropDuplicatesKeepLast(rows) ==
    SelectPos(rows, { k \in DOMAIN rows :
                        \A i \in DOMAIN rows : i > k => rows[i][COL_JOINT] # rows[k][COL_JOINT] }, 1)

\* drop_duplicates(subset=['joint number']) (line 46): the first row of
\* every joint number is kept
DropDuplicates(rows) ==
    SelectPos(rows, { k \in DOMAIN rows :
                        \A i \in DOMAIN rows : i < k => rows[i][COL_JOINT] # rows[k][COL_JOINT] }, 1)

\* joints_df of lines 43-47, for a table that has the four joint columns
JointsDf(t) ==
    [ columns |-> joint_columns,
      rows |-> DropDuplicates(
                   Project(SelectPos(t.rows, { k \in DOMAIN t.rows : ~IsNone(t.rows[k][COL_JOINT]) }, 1),
                           joint_columns)) ]

\* the last joint number at or before row k, missing when there is none
RECURSIVE LastValid(_, _)
LastValid(rows, k) ==
    IF k = 0 THEN NaN
    ELSE IF ~IsNone(rows[k][COL_JOINT]) THEN rows[k][COL_JOINT]
    ELSE LastValid(rows, k - 1)

\* variant: a missing joint number is taken from the following row
FillFromFollowing(t) ==
    [ columns |-> t.columns,
      rows |-> [ k \in DOMAIN t.rows |->
                   [ t.rows[k] EXCEPT ![COL_JOINT] =
                       IF IsNone(@) /\ k < Len(t.rows) THEN t.rows[k + 1][COL_JOINT] ELSE @ ] ] ]

\* df_copy['joint number'].fillna(method='ffill') (line 51)
FillJointNumber(t) ==
    [ columns |-> t.columns,
      rows |-> [ k \in DOMAIN t.rows |->
                   [ t.rows[k] EXCEPT ![COL_JOINT] = LastValid(t.rows, k) ] ] ]

\* defects_df of lines 54-82, for a table that has the length and the
\* width column
DefectsDf(t) ==
    LET available_columns == defect_columns \cap t.columns
        selected == Project(SelectPos(t.rows,
                                      { k \in DOMAIN t.rows :
                                          /\ ~IsNone(t.rows[k][COL_LENGTH])
                                          /\ ~IsNone(t.rows[k][COL_WIDTH]) }, 1),
                            available_columns)
    IN [ columns |-> available_columns,
         rows |-> [ k \in DOMAIN selected |->
                      [ c \in available_columns |->
                          IF c = COL_SURFACE THEN standardize_surface_location(selected[k][c])
                          ELSE selected[k][c] ] ] ]

\* the columns whose lack makes a subscript of lines 43-56 raise KeyError:
\* the joint number (line 43, first subscript), then the missing ones of
\* the list of line 43, then the length, then the width (lines 55-56)
KeyErrorColumns(t) ==
    IF COL_JOINT \notin t.columns THEN { COL_JOINT }
    ELSE IF joint_columns \ t.columns # { } THEN joint_columns \ t.columns
    ELSE IF COL_LENGTH \notin t.columns THEN { COL_LENGTH }
    ELSE IF COL_WIDTH \notin t.columns THEN { COL_WIDTH }
    ELSE { }

\* df_copy when line 43 is reached (lines 18-40)
SortedCopy(t, order) == SortValues(ToNumericColumns(ReplaceEmptyStrings(t)), order)

\* the pair returned at line 84
process_pipeline_data(t, order) ==
    [ joints_df |-> JointsDf(SortedCopy(t, order)),
      defects_df |-> DefectsDf(FillJointNumber(SortedCopy(t, order))) ]

-----------------------------------------------------------------------------
(* The steps of the processing of one upload, file_processing.py *)

\* bound: the number of times process_pipeline_data is applied to the table
MaxCalls == 2

\* process_data, lines 206-208: the surface location column of the mapped
\* table is standardized
StandardizeUpload ==
    /\ split_pc = "mapped"
    /\ standardized_df' =
          [ columns |-> standardized_df.columns,
            rows |-> [ k \in DOMAIN standardized_df.rows |->
                         [ c \in standardized_df.columns |->
                             IF c = COL_SURFACE
                             THEN standardize_surface_location(standardized_df.rows[k][c])
                             ELSE standardized_df.rows[k][c] ] ] ]
    /\ split_pc' = "standardized"
    /\ UNCHANGED << sort_order, returned, split_error >>
    /\ UNCHANGED << compare_vars, codec_vars, store_vars >>

\* variant: process_pipeline_data works on its argument, not on a copy,
\* and leaves it sorted
ProcessPipelineDataInPlace ==
    /\ split_pc = "standardized"
    /\ Len(returned) < MaxCalls
    /\ KeyErrorColumns(standardized_df) = { }
    /\ returned' = Append(returned, process_pipeline_data(standardized_df, sort_order))
    /\ standardized_df' = SortValues(standardized_df, sort_order)
    /\ UNCHANGED << sort_order, split_pc, split_error >>
    /\ UNCHANGED << compare_vars, codec_vars, store_vars >>

\* process_pipeline_data(standardized_df) (line 212) on a table that has
\* the columns it subscripts: the pair is returned, the argument is left as
\* it was (line 18)
ProcessPipelineData ==
    /\ split_pc = "standardized"
    /\ Len(returned) < MaxCalls
    /\ KeyErrorColumns(standardized_df) = { }
    /\ returned' = Append(returned, process_pipeline_data(standardized_df, sort_order))
    /\ UNCHANGED << standardized_df, sort_order, split_pc, split_error >>
    /\ UNCHANGED << compare_vars, codec_vars, store_vars >>

\* process_pipeline_data on a table that lacks a column it subscripts: the
\* KeyError leaves the function (and is caught at line 261)
RaiseKeyError ==
    /\ split_pc = "standardized"
    /\ KeyErrorColumns(standardized_df) # { }
    /\ split_error' = Some([ exception |-> "KeyError",
                             columns |-> KeyErrorColumns(standardized_df) ])
    /\ split_pc' = "raised"
    /\ UNCHANGED << standardized_df, sort_order, returned >>
    /\ UNCHANGED << compare_vars, codec_vars, store_vars >>

NextProcess ==
    \/ StandardizeUpload
    \/ ProcessPipelineData
    \/ RaiseKeyError

-----------------------------------------------------------------------------
(* Uploads *)

\* bound: the number of rows of an uploaded table
MaxRaw == 3

\* the columns process_pipeline_data subscripts
SplitterColumns == joint_columns \cup { COL_LENGTH, COL_WIDTH }

\* a row of an upload over the columns cols; the joint length, the wall
\* thickness and the type are the same in every row
RawRow(cols, d, j, l, w, s) ==
    [ c \in cols |->
        CASE c = COL_DIST -> d
          [] c = COL_JOINT -> j
          [] c = COL_JOINT_LENGTH -> Some("10")
          [] c = COL_WT -> Some("8")
          [] c = COL_LENGTH -> l
          [] c = COL_WIDTH -> w
          [] c = COL_SURFACE -> s
          [] OTHER -> Some("corrosion") ]

\* the uploads with columns cols and at most n rows drawn from rows
RawTables(cols, n, rows) ==
    { [ columns |-> cols, rows |-> r ] : r \in UNION { [ 1 .. k -> rows ] : k \in 0 .. n } }

\* the kinds of record of a survey as (joint number, length, width): a
\* joint record of joint 1 or 2 and a defect
RecordKinds ==
    { << Some("1"), NaN, NaN >>, << Some("2"), NaN, NaN >>, << NaN, Some("5"), Some("5") >> }

\* the surface location cells of the uploads
SurfaceCells ==
    { NaN, Some(""), Some(" "), Some("INT"), Some(" Internal "), Some("i"),
      Some("yes "), Some("interne"), Some("NON-INT"), Some(" e"),
      Some("External"), Some("no"), Some("Non Int"), Some("externe"), Some("unknown"),
      Some(" Int. ") }

\* the compare_defects state while no comparison is made
NoComparison ==
    /\ old_defects_df = [ columns |-> { }, rows |-> << >> ]
    /\ new_defects_df = [ columns |-> { }, rows |-> << >> ]
    /\ old_year = None
    /\ new_year = None
    /\ distance_tolerance = 0
    /\ pc = "idle"
    /\ calculate_growth = FALSE
    /\ year_diff = None
    /\ has_depth_data = FALSE
    /\ has_wt_data = FALSE
    /\ pos = 0
    /\ matched_old = { }
    /\ matched_new = { }
    /\ matches = << >>
    /\ results = None
    /\ error = None
    /\ display = "none"
    /\ merged_view = None

\* the state when process_data has mapped the columns of the upload t
Upload(t, order) ==
    /\ standardized_df = t
    /\ sort_order = order
    /\ split_pc = "mapped"
    /\ returned = << >>
    /\ split_error = None
    /\ NoComparison
    /\ NoCodecCall
    /\ NoDatasets

\* uploads of joint and defect records at distance 1 or 2
RecordUploads ==
    \E t \in RawTables(SplitterColumns, MaxRaw,
                       { RawRow(SplitterColumns, d, k[1], k[2], k[3], NaN) :
                           d \in { 1, 2 }, k \in RecordKinds }) :
        \E order \in SortOrders(t) : Upload(t, order)

\* uploads whose joint number, length and width cells are numbers, blank or
\* not numeric
CellUploads ==
    \E t \in RawTables(SplitterColumns, MaxRaw - 1,
                       { RawRow(SplitterColumns, d, j, l, w, NaN) :
                           d \in { 1, 2 },
                           j \in { Some("1"), Some(" ") },
                           l \in { Some("5"), Some("") },
                           w \in { Some("5"), Some("x") } }) :
        \E order \in SortOrders(t) : Upload(t, order)

\* uploads of defects with a type and a surface location column; the k-th
\* defect lies at distance k
SurfaceUploads ==
    LET cols == SplitterColumns \cup { COL_TYPE, COL_SURFACE }
    IN \E n \in 0..(MaxRaw - 1) :
           \E cells \in [1..n -> SurfaceCells] :
               LET t == [columns |-> cols,
                         rows |-> [k \in 1..n |->
                                      RawRow(cols, k, NaN, Some("5"), Some("5"), cells[k])]]
               IN \E order \in SortOrders(t) : Upload(t, order)

\* uploads that lack one of the columns process_pipeline_data subscripts
LackingUploads ==
    \E lacking \in SplitterColumns :
        \E t \in RawTables(SplitterColumns \ { lacking }, MaxRaw - 1,
                           { RawRow(SplitterColumns \ { lacking }, d, k[1], k[2], k[3], NaN) :
                               d \in { 1, 2 }, k \in RecordKinds }) :
            \E order \in SortOrders(t) : Upload(t, order)

InitProcess == RecordUploads \/ CellUploads \/ SurfaceUploads \/ LackingUploads

SpecProcess == InitProcess /\ [][NextProcess]_vars

-----------------------------------------------------------------------------
(* Floating-point numbers of the clock codec, utils.py                     *)
(*                                                                         *)
(* A Python float is modelled bit for bit: a finite double is              *)
(* [neg, int, frac] with int the integer part of its magnitude and frac    *)
(* the binary digits of the fractional part (no trailing zero), and every  *)
(* arithmetic result is rounded to 53 significant binary digits, ties to   *)
(* even.                                                                   *)

\* the significant binary digits of a double
MantissaBits == 53

\* the groups of eight binary digits the quotient of two integers is
\* carried to before it is rounded; enough for every quotient above 2^-18
QuotientBytes == 9

\* the number of binary digits of a natural number
RECURSIVE BitLen(_)
BitLen(n) == IF n = 0 THEN 0 ELSE 1 + BitLen(n \div 2)

\* binary digits without the trailing zeros
StripZeros(bits) ==
    LET ones == { k \in DOMAIN bits : bits[k] = 1 }
    IN IF ones = { } THEN << >>
       ELSE SubSeq(bits, 1, CHOOSE k \in ones : \A j \in ones : j <= k)

\* a double from a sign, an integer part and fraction digits that need no
\* rounding
Float(neg, int, frac) ==
    LET digits == StripZeros(frac)
    IN [ neg |-> neg /\ (int # 0 \/ digits # << >>), int |-> int, frac |-> digits ]

\* the double of an integer
FloatOfInt(n) == Float(n < 0, IF n < 0 THEN -n ELSE n, << >>)

\* the position of the first digit 1, 0 when there is none
LeadingOne(bits) ==
    LET ones == { k \in DOMAIN bits : bits[k] = 1 }
    IN IF ones = { } THEN 0 ELSE CHOOSE k \in ones : \A j \in ones : k <= j

\* int.frac plus one unit in the last place of frac
NextUp(int, frac) ==
    LET zeros == { k \in DOMAIN frac : frac[k] = 0 }
        last == CHOOSE k \in zeros : \A j \in zeros : j <= k
    IN IF zeros = { }
       THEN [ int |-> int + 1, frac |-> [ k \in DOMAIN frac |-> 0 ] ]
       ELSE [ int |-> int,
              frac |-> [ k \in DOMAIN frac |->
                           IF k < last THEN frac[k] ELSE IF k = last THEN 1 ELSE 0 ] ]

\* the double nearest to the exact value int.frac (sticky: the exact value
\* has further non-zero digits after frac), ties to even
RoundToDouble(neg, int, frac, sticky) ==
    LET keep == IF int > 0 THEN MantissaBits - BitLen(int)
                ELSE LeadingOne(frac) + MantissaBits - 1
    IN IF Len(frac) <= keep THEN Float(neg, int, frac)
       ELSE LET kept == SubSeq(frac, 1, keep)
                guard == frac[keep + 1]
                rest == sticky \/ \E k \in (keep + 2)..Len(frac) : frac[k] = 1
                odd == IF keep = 0 THEN int % 2 = 1 ELSE kept[keep] = 1
                up == NextUp(int, kept)
            IN IF guard = 1 /\ (rest \/ odd)
               THEN Float(neg, up.int, up.frac)
               ELSE Float(neg, int, kept)

\* the eight binary digits of a number below 256
Byte(v) == [ k \in 1..8 |-> (v \div (2 ^ (8 - k))) % 2 ]

\* the number eight binary digits write
ByteValue(bits) ==
    128 * bits[1] + 64 * bits[2] + 32 * bits[3] + 16 * bits[4]
        + 8 * bits[5] + 4 * bits[6] + 2 * bits[7] + bits[8]

\* the first 8 * n binary digits of r / d for 0 <= r < d, and the
\* remainder, eight digits at a step
RECURSIVE QuotientDigits(_, _, _)
QuotientDigits(r, d, n) ==
    IF n = 0 THEN [ digits |-> << >>, rem |-> r ]
    ELSE LET q == QuotientDigits((256 * r) % d, d, n - 1)
         IN [ digits |-> Byte((256 * r) \div d) \o q.digits, rem |-> q.rem ]

\* n / d for integers n and d > 0 (Python's true division)
IntTrueDiv(n, d) ==
    LET a == IF n < 0 THEN -n ELSE n
        q == QuotientDigits(a % d, d, QuotientBytes)
    IN RoundToDouble(n < 0, a \div d, q.digits, q.rem # 0)

\* the exact product of the fraction 0.frac and the natural number c, for
\* a number of digits that is a multiple of eight, eight digits at a step
RECURSIVE TimesBytes(_, _)
TimesBytes(frac, c) ==
    IF frac = << >> THEN [ int |-> 0, frac |-> << >> ]
    ELSE LET low == TimesBytes(SubSeq(frac, 9, Len(frac)), c)
             sum == ByteValue(SubSeq(frac, 1, 8)) * c + low.int
         IN [ int |-> sum \div 256, frac |-> Byte(sum % 256) \o low.frac ]

\* the exact product of the fraction 0.frac and the natural number c
TimesDigits(frac, c) ==
    TimesBytes(frac \o [ k \in 1..((8 - (Len(frac) % 8)) % 8) |-> 0 ], c)

\* x * c for a double x and a natural number c
FloatTimes(x, c) ==
    LET p == TimesDigits(x.frac, c)
    IN RoundToDouble(x.neg, x.int * c + p.int, p.frac, FALSE)

\* 1 - 0.frac for fraction digits that end in 1
OneMinus(frac) ==
    [ k \in 1..Len(frac) |-> IF k = Len(frac) THEN 1 ELSE 1 - frac[k] ]

\* -x
FloatNeg(x) == Float(~x.neg, x.int, x.frac)

\* x + n for a double x >= 0 or x < 0 and a natural number n
FloatPlusNat(x, n) ==
    IF ~x.neg THEN RoundToDouble(FALSE, x.int + n, x.frac, FALSE)
    ELSE IF x.int >= n THEN RoundToDouble(TRUE, x.int - n, x.frac, FALSE)
    ELSE IF x.frac = << >> THEN RoundToDouble(FALSE, n - x.int, << >>, FALSE)
    ELSE RoundToDouble(FALSE, n - x.int - 1, OneMinus(x.frac), FALSE)

\* x + n for a double x and an integer n
FloatPlus(x, n) ==
    IF n >= 0 THEN FloatPlusNat(x, n) ELSE FloatNeg(FloatPlusNat(FloatNeg(x), -n))

\* x < n and x > n for a double x and a natural number n
FloatLess(x, n) == (x.neg /\ n >= 0) \/ (~x.neg /\ x.int < n)

FloatGreater(x, n) == ~x.neg /\ (x.int > n \/ (x.int = n /\ x.frac # << >>))

\* x % n for a double x >= 0 and a natural number n > 0 (exact)
FloatMod(x, n) == Float(FALSE, x.int % n, x.frac)

\* int(x): the integer x is cut to, toward zero
IntOfFloat(x) == IF x.neg THEN -x.int ELSE x.int

\* int(round(x)) for a double x >= 0: the nearest integer, ties to even
RoundOfFloat(x) ==
    IF x.frac = << >> \/ x.frac[1] = 0 THEN x.int
    ELSE IF Len(x.frac) > 1 \/ x.int % 2 = 1 THEN x.int + 1
    ELSE x.int

-----------------------------------------------------------------------------
(* Texts of the clock codec: a str is the sequence of its characters *)

Digits == << "0", "1", "2", "3", "4", "5", "6", "7", "8", "9" >>

IsDigit(ch) == \E k \in 1..10 : Digits[k] = ch

DigitValue(ch) == (CHOOSE k \in 1..10 : Digits[k] = ch) - 1

\* str(n) for a natural number n
RECURSIVE StrOfNat(_)
StrOfNat(n) ==
    IF n < 10 THEN << Digits[n + 1] >>
    ELSE Append(StrOfNat(n \div 10), Digits[(n % 10) + 1])

\* f"{n}"
FormatD(n) == IF n < 0 THEN << "-" >> \o StrOfNat(-n) ELSE StrOfNat(n)

\* f"{n:02d}": zeros up to the width 2, the sign counted in the width
Format02d(n) == IF Len(FormatD(n)) < 2 THEN << "0" >> \o FormatD(n) ELSE FormatD(n)

\* text.split(":")
RECURSIVE SplitColon(_)
SplitColon(text) ==
    IF \A k \in DOMAIN text : text[k] # ":" THEN << text >>
    ELSE LET k == CHOOSE i \in DOMAIN text :
                      text[i] = ":" /\ \A j \in 1..(i - 1) : text[j] # ":"
         IN << SubSeq(text, 1, k - 1) >> \o SplitColon(SubSeq(text, k + 1, Len(text)))

\* text.strip() for the blank " "
RECURSIVE Strip(_)
Strip(text) ==
    IF text = << >> THEN text
    ELSE IF text[1] = " " THEN Strip(Tail(text))
    ELSE IF text[Len(text)] = " " THEN Strip(SubSeq(text, 1, Len(text) - 1))
    ELSE text

\* the number a sequence of digits writes
RECURSIVE NatOfDigits(_)
NatOfDigits(text) ==
    IF text = << >> THEN 0
    ELSE 10 * NatOfDigits(SubSeq(text, 1, Len(text) - 1)) + DigitValue(text[Len(text)])

\* int(text): blanks around an optional sign and one digit or more; None
\* stands for the ValueError of any other text
IntOfStr(text) ==
    LET t == Strip(text)
        signed == t # << >> /\ t[1] \in { "-", "+" }
        digits == IF signed THEN Tail(t) ELSE t
    IN IF digits = << >> \/ \E k \in DOMAIN digits : ~IsDigit(digits[k]) THEN None
       ELSE IF signed /\ t[1] = "-" THEN Some(-NatOfDigits(digits))
       ELSE Some(NatOfDigits(digits))

-----------------------------------------------------------------------------
(* The clock codec, utils.py lines 4-49 *)

\* the text of a null decimal, line 36
Unknown == << "U", "n", "k", "n", "o", "w", "n" >>

\* float_to_clock, lines 4-11, for a null or a double time_float >= 0
float_to_clock(time_float) ==
    IF IsNone(time_float) THEN None
    ELSE LET total_minutes == FloatTimes(FloatTimes(Val(time_float), 24), 60)
             hours == total_minutes.int \div 60
             minutes == RoundOfFloat(FloatMod(total_minutes, 60))
         IN Some(Format02d(hours) \o << ":" >> \o Format02d(minutes))

\* the body of the try of parse_clock, lines 19-20: the value returned or
\* the exception raised
ParseClockTry(clock_str) ==
    IF IsNone(clock_str)
    THEN [ raised |-> Some("AttributeError"), value |-> NaN ]
    ELSE LET parts == SplitColon(Val(clock_str))
         IN IF Len(parts) # 2 \/ \E k \in DOMAIN parts : IsNone(IntOfStr(parts[k]))
            THEN [ raised |-> Some("ValueError"), value |-> NaN ]
            ELSE LET hours == Val(IntOfStr(parts[1]))
                     minutes == Val(IntOfStr(parts[2]))
                 IN [ raised |-> None,
                      value |-> Some(FloatPlus(IntTrueDiv(minutes, 60), hours)) ]

\* variant: parse_clock without the except clause
ParseClockUncaught(clock_str) == ParseClockTry(clock_str)

\* parse_clock, lines 14-22: every exception of the body is caught and the
\* not-a-number is returned
parse_clock(clock_str) ==
    IF IsNone(ParseClockTry(clock_str).raised)
    THEN ParseClockTry(clock_str)
    ELSE [ raised |-> None, value |-> NaN ]

\* variant: 12 is added to the values up to 0 only
WrapDecimalHoursUpToZero(decimal_hours) ==
    IF ~FloatGreater(decimal_hours, 0) THEN FloatPlus(decimal_hours, 12)
    ELSE IF FloatGreater(decimal_hours, 12)
    THEN IF FloatMod(decimal_hours, 12) = FloatOfInt(0)
         THEN FloatOfInt(12)
         ELSE FloatMod(decimal_hours, 12)
    ELSE decimal_hours

\* lines 38-44 of decimal_to_clock_str: the value between 1 and 12
WrapDecimalHours(decimal_hours) ==
    IF FloatLess(decimal_hours, 1) THEN FloatPlus(decimal_hours, 12)
    ELSE IF FloatGreater(decimal_hours, 12)
    THEN IF FloatMod(decimal_hours, 12) = FloatOfInt(0)
         THEN FloatOfInt(12)
         ELSE FloatMod(decimal_hours, 12)
    ELSE decimal_hours

\* decimal_to_clock_str, lines 24-49
decimal_to_clock_str(decimal_hours) ==
    IF IsNone(decimal_hours) THEN Unknown
    ELSE LET wrapped == WrapDecimalHours(Val(decimal_hours))
             hours == IntOfFloat(wrapped)
             \* wrapped - hours is exact
             minutes == IntOfFloat(FloatTimes(Float(wrapped.neg, 0, wrapped.frac), 60))
         IN FormatD(hours) \o << ":" >> \o Format02d(minutes)

-----------------------------------------------------------------------------
(* Calls of the clock codec *)

\* bound: the number of codec functions applied one after the other
MaxCodecCalls == 2

\* the record of one call
CodecCall(function, argument, outcome) ==
    [ function |-> function, argument |-> argument,
      result |-> outcome.value, raised |-> outcome.raised ]

\* parse_clock(clock_value)
ParseClock ==
    /\ clock_kind = "str"
    /\ Len(clock_log) < MaxCodecCalls
    /\ clock_log' = Append(clock_log,
                           CodecCall("parse_clock", clock_value, parse_clock(clock_value)))
    /\ clock_value' = parse_clock(clock_value).value
    /\ clock_kind' = IF IsNone(parse_clock(clock_value).raised) THEN "float" ELSE "raised"
    /\ UNCHANGED << compare_vars, process_vars, store_vars >>

\* decimal_to_clock_str(clock_value)
DecimalToClockStr ==
    /\ clock_kind = "float"
    /\ Len(clock_log) < MaxCodecCalls
    /\ clock_log' = Append(clock_log,
                           CodecCall("decimal_to_clock_str", clock_value,
                                     [ raised |-> None,
                                       value |-> Some(decimal_to_clock_str(clock_value)) ]))
    /\ clock_value' = Some(decimal_to_clock_str(clock_value))
    /\ clock_kind' = "str"
    /\ UNCHANGED << compare_vars, process_vars, store_vars >>

\* float_to_clock(clock_value) for a null or a value that is not negative
FloatToClock ==
    /\ clock_kind = "float"
    /\ IF IsNone(clock_value) THEN TRUE ELSE ~Val(clock_value).neg
    /\ Len(clock_log) < MaxCodecCalls
    /\ clock_log' = Append(clock_log,
                           CodecCall("float_to_clock", clock_value,
                                     [ raised |-> None, value |-> float_to_clock(clock_value) ]))
    /\ clock_value' = float_to_clock(clock_value)
    /\ clock_kind' = "str"
    /\ UNCHANGED << compare_vars, process_vars, store_vars >>

NextClock ==
    \/ ParseClock
    \/ DecimalToClockStr
    \/ FloatToClock

\* bounds: the texts H:MM have hours up to MaxHourText and minutes up to
\* MaxMinuteText; the decimals are the sixteenths from -MaxSixteenths to
\* 2 * MaxSixteenths; the fractions of a day are the thousandths up to
\* MaxThousandths and the minutes of a day up to MaxMinuteOfDay
MaxHourText == 13

MaxMinuteText == 60

MaxSixteenths == 208

MaxThousandths == 1100

MaxMinuteOfDay == 1439

\* the texts H:MM as decimal_to_clock_str writes them
ClockFaceTexts ==
    { FormatD(h) \o << ":" >> \o Format02d(m) : h \in 0..MaxHourText, m \in 0..MaxMinuteText }

\* texts of other forms. The characters of every text are digits, the
\* colon, the blank, the signs and letters.
OtherTexts ==
    { << >>, << "n", "a", "n" >>, << "5" >>, << "5", ":" >>, << ":", "3", "0" >>,
      << "5", ":", "3", "x" >>, << "1", ":", "2", ":", "3" >>, << "5", ".", "5" >>,
      << " ", "5", ":", "3", "0", " " >>, << "0", "5", ":", "3", "0" >>,
      << "5", ":", "5" >>, << "-", "5", ":", "3", "0" >>, << "5", ":", "-", "3", "0" >>,
      << "+", "5", ":", "3", "0" >>, << "5", " ", ":", " ", "7" >>, Unknown }

\* the decimals n / 16
Decimals == { IntTrueDiv(n, 16) : n \in (-MaxSixteenths)..(2 * MaxSixteenths) }

\* the fractions of a day n / 1000 and k / 1440
DayFractions ==
    { IntTrueDiv(n, 1000) : n \in 0..MaxThousandths }
        \cup { IntTrueDiv(k, 1440) : k \in 0..MaxMinuteOfDay }

\* the state before the first call of a codec function on the value v
CodecArgument(v, kind) ==
    /\ clock_value = v
    /\ clock_kind = kind
    /\ clock_log = << >>
    /\ NoComparison
    /\ NoUpload
    /\ NoDatasets

InitClock ==
    \/ \E text \in ClockFaceTexts \cup OtherTexts : CodecArgument(Some(text), "str")
    \/ CodecArgument(None, "str")
    \/ \E x \in Decimals \cup DayFractions : CodecArgument(Some(x), "float")
    \/ CodecArgument(NaN, "float")

SpecClock == InitClock /\ [][NextClock]_vars

-----------------------------------------------------------------------------
(* The dataset store, app.py, file_processing.py, analysis_callbacks.py    *)
(*                                                                         *)
(* A Python dict is a function from keys to values. A key is an int or a   *)
(* str: [type |-> "int", int |-> n, str |-> ""] or                         *)
(* [type |-> "str", int |-> 0, str |-> text], so that the int 2 and the    *)
(* str "2" are different keys. A year is written with one digit in the     *)
(* model; the years of the application have four digits each, so that the  *)
(* order of their texts is the order of the numbers as well.               *)

IntKey(n) == [ type |-> "int", int |-> n, str |-> "" ]

StrKey(text) == [ type |-> "str", int |-> 0, str |-> text ]

\* the key of the uploads waiting to be processed, file_processing.py
\* line 107
TEMP_DF == StrKey("temp_df")

\* the keys of a processed year, file_processing.py lines 246-248
JOINTS_DF == StrKey("joints_df")

DEFECTS_DF == StrKey("defects_df")

PIPE_DIAMETER == StrKey("pipe_diameter")

\* {}
EmptyDict == << >>

\* d[key] = value
SetItem(d, key, value) ==
    [ k \in DOMAIN d \cup { key } |-> IF k = key THEN value ELSE d[k] ]

\* del d[key]
DelItem(d, key) == [ k \in DOMAIN d \ { key } |-> d[k] ]

\* str(key)
StrOf(key) == IF key.type = "int" THEN Digits[key.int + 1] ELSE key.str

\* int(text): None stands for the ValueError of a text that is no number
IntOfText(text) == IF IsDigit(text) THEN Some(DigitValue(text)) ELSE None

\* a < b for two keys of one type; the texts of the model are a digit or a
\* word of letters, and a digit comes before a letter
KeyLess(a, b) ==
    IF a.type = "int" THEN a.int < b.int
    ELSE IF IsDigit(a.str) /\ IsDigit(b.str) THEN DigitValue(a.str) < DigitValue(b.str)
    ELSE IsDigit(a.str) /\ ~IsDigit(b.str)

\* sorted(keys) raises TypeError when an int and a str are among the keys
SortedRaises(keys) == \E a, b \in keys : a.type # b.type

\* bound: the inspection years are 1 .. MaxStoreYear; the year the year
\* selector starts with (app.py line 105) is the last of them
MaxStoreYear == 2

\* the values of the year selector, app.py lines 103-105: the int of the
\* current year until a year is picked, the str of the picked year after
YearSelections ==
    { IntKey(MaxStoreYear) } \cup { StrKey(Digits[y + 1]) : y \in 1..MaxStoreYear }

\* the upload of a survey of the year y: the record of joint 1 at distance
\* 1 and a defect at distance 1 + y
SurveyUpload(y) ==
    LET cols == SplitterColumns \cup { COL_TYPE }
    IN [ columns |-> cols,
         rows |-> << RawRow(cols, 1, Some("1"), NaN, NaN, NaN),
                     RawRow(cols, 1 + y, NaN, Some("5"), Some("5"), NaN) >> ]

\* an upload without the width column
NarrowUpload ==
    LET cols == (SplitterColumns \cup { COL_TYPE }) \ { COL_WIDTH }
    IN [ columns |-> cols, rows |-> << RawRow(cols, 1, Some("1"), Some("5"), NaN, NaN) >> ]

\* the files uploaded for the selection: a survey of that year or the
\* upload without the width column
UploadsFor(selected_year) ==
    { SurveyUpload(IF selected_year.type = "int" THEN selected_year.int
                   ELSE DigitValue(selected_year.str)),
      NarrowUpload }

\* the column area_mm2 of file_processing.py lines 237-238
COL_AREA == "area_mm2"

\* length * width of two cells
Area(length, width) ==
    IF IsNone(length) \/ IsNone(width) THEN NaN ELSE Some(Val(length) * Val(width))

\* file_processing.py lines 236-238: the defects table with the area
WithArea(defects_df) ==
    IF { COL_LENGTH, COL_WIDTH } \subseteq defects_df.columns
    THEN [ columns |-> defects_df.columns \cup { COL_AREA },
           rows |-> [ k \in DOMAIN defects_df.rows |->
                        [ c \in defects_df.columns \cup { COL_AREA } |->
                            IF c = COL_AREA
                            THEN Area(defects_df.rows[k][COL_LENGTH],
                                      defects_df.rows[k][COL_WIDTH])
                            ELSE defects_df.rows[k][c] ] ] ]
    ELSE defects_df

\* file_processing.py lines 204-249: the entry process_data stores for the
\* upload df
ProcessedEntry(df) ==
    LET order == CHOOSE o \in SortOrders(df) : TRUE
        pair == process_pipeline_data(df, order)
    IN (JOINTS_DF :> pair.joints_df) @@ (DEFECTS_DF :> WithArea(pair.defects_df))
           @@ (PIPE_DIAMETER :> 1)

\* what a callback returns: the exception or message it ends with, if any,
\* and the keys of the store it shows
Output(callback, args, raised, years) ==
    [ callback |-> callback, args |-> args, raised |-> raised, years |-> years ]

\* the dict the callbacks of app.py lines 302-303 were registered with,
\* after "d = value" for the dict they close over; the global name datasets
\* of app.py names the same dict until it is bound to another one
Stored(value) ==
    /\ datasets' = value
    /\ app_datasets' = IF rebound THEN app_datasets ELSE value

\* update_upload_content, file_processing.py lines 68-128, for a file that
\* parse_uploaded_file reads
UpdateUploadContent ==
    \E selected_year \in YearSelections :
        \E df \in UploadsFor(selected_year) :
            LET temp == IF TEMP_DF \in DOMAIN datasets THEN datasets[TEMP_DF] ELSE EmptyDict
            IN /\ Stored(SetItem(datasets, TEMP_DF, SetItem(temp, selected_year, df)))
               /\ upload_info' = Some([ year |-> selected_year ])
               /\ callback_output' = Output("update_upload_content", << selected_year >>, None, { })
               /\ UNCHANGED << rebound, selectors, compare_vars, process_vars, codec_vars >>

\* update_upload_content for no file (lines 70-71, after cancel_processing,
\* lines 274-277) or a file that cannot be read (lines 76-80)
CancelProcessing ==
    /\ upload_info' = None
    /\ callback_output' = Output("cancel_processing", << >>, None, { })
    /\ UNCHANGED << datasets, app_datasets, rebound, selectors,
                    compare_vars, process_vars, codec_vars >>

\* process_data, file_processing.py lines 168-267, for a click on the
\* process button (it exists while upload_info is set)
ProcessData ==
    /\ ~IsNone(upload_info)
    /\ LET selected_year == Val(upload_info).year
           temp == datasets[TEMP_DF]
       IN IF selected_year \notin DOMAIN temp
          THEN /\ callback_output' = Output("process_data", << selected_year >>, Some("No data found"), { })
               /\ UNCHANGED << datasets, app_datasets >>
          ELSE IF KeyErrorColumns(temp[selected_year]) # { }
          THEN /\ callback_output' = Output("process_data", << selected_year >>, Some("Error processing data"), { })
               /\ UNCHANGED << datasets, app_datasets >>
          ELSE /\ Stored(SetItem(SetItem(datasets, selected_year,
                                         ProcessedEntry(temp[selected_year])),
                                 TEMP_DF, DelItem(temp, selected_year)))
               /\ callback_output' = Output("process_data", << selected_year >>, None, { selected_year })
    /\ UNCHANGED << upload_info, rebound, selectors, compare_vars, process_vars, codec_vars >>

\* update_loaded_datasets, app.py lines 252-258, for a click on the clear
\* button: the global name datasets is bound to a new, empty dict; the dict
\* the callbacks were registered with is left as it is
ClearAllDatasets ==
    /\ app_datasets' = EmptyDict
    /\ rebound' = TRUE
    /\ callback_output' = Output("update_loaded_datasets", << "clear-all-datasets-btn" >>, None, { })
    /\ UNCHANGED << datasets, upload_info, selectors, compare_vars, process_vars, codec_vars >>

\* update_loaded_datasets, app.py lines 252-299, after process_data: a card
\* for every key of the dict the global name datasets names
UpdateLoadedDatasets ==
    /\ callback_output' =
          IF SortedRaises(DOMAIN app_datasets)
          THEN Output("update_loaded_datasets", << >>, Some("TypeError"), { })
          ELSE Output("update_loaded_datasets", << >>, None, DOMAIN app_datasets)
    /\ UNCHANGED << datasets, app_datasets, rebound, upload_info, selectors,
                    compare_vars, process_vars, codec_vars >>

\* analysis_layout.py lines 27-30: the entries of the store that hold a
\* joints and a defects table
valid_datasets(d) ==
    { year \in DOMAIN d : { JOINTS_DF, DEFECTS_DF } \subseteq DOMAIN d[year] }

\* years[:-1] and years[1:] of the sorted keys, analysis_layout.py lines
\* 305-310
AllButLast(years) == { y \in years : \E z \in years : KeyLess(y, z) }

AllButFirst(years) == { y \in years : \E z \in years : KeyLess(z, y) }

\* update_analysis_content, analysis_callbacks.py lines 28-30, and
\* create_analysis_layout, analysis_layout.py lines 8-54 and 286-335: the
\* year selectors of the comparison tab are made anew from the dict the
\* callback was registered with; an exception leaves the page as it was
UpdateAnalysisContent ==
    LET valid == valid_datasets(datasets)
    IN /\ IF SortedRaises(valid)
          THEN /\ callback_output' =
                     Output("update_analysis_content", << >>, Some("TypeError"), { })
               /\ UNCHANGED selectors
          ELSE /\ callback_output' = Output("update_analysis_content", << >>, None, valid)
               /\ selectors' =
                     IF Cardinality(valid) < 2
                     THEN [ earlier |-> { }, later |-> { } ]
                     ELSE [ earlier |-> { StrOf(y) : y \in AllButLast(valid) },
                            later |-> { StrOf(y) : y \in AllButFirst(valid) } ]
       /\ UNCHANGED << datasets, app_datasets, rebound, upload_info,
                       compare_vars, process_vars, codec_vars >>

\* update_later_year_options, analysis_callbacks.py lines 127-134, for a
\* value of the earlier year selector: the options of the later year
\* selector are made from the keys of the store
UpdateLaterYearOptions ==
    \E earlier_year \in selectors.earlier :
        /\ IF SortedRaises(DOMAIN datasets \cup { StrKey(earlier_year) })
           THEN /\ callback_output' =
                      Output("update_later_year_options", << earlier_year >>,
                             Some("TypeError"), { })
                /\ UNCHANGED selectors
           ELSE LET later_years ==
                        { year \in DOMAIN datasets : KeyLess(StrKey(earlier_year), year) }
                IN /\ callback_output' =
                         Output("update_later_year_options", << earlier_year >>,
                                None, later_years)
                   /\ selectors' =
                         [ selectors EXCEPT !.later = { StrOf(y) : y \in later_years } ]
        /\ UNCHANGED << datasets, app_datasets, rebound, upload_info,
                        compare_vars, process_vars, codec_vars >>

\* update_comparison_results, analysis_callbacks.py lines 144-180, up to
\* the call of compare_defects, for values of the two year selectors
UpdateComparisonResults ==
    \E earlier_year \in selectors.earlier, later_year \in selectors.later :
        /\ callback_output' =
              IF IsNone(IntOfText(earlier_year)) \/ IsNone(IntOfText(later_year))
              THEN Output("update_comparison_results", << earlier_year, later_year >>,
                          Some("ValueError"), { })
              ELSE IF StrKey(earlier_year) \in DOMAIN datasets
                      /\ StrKey(later_year) \in DOMAIN datasets
              THEN Output("update_comparison_results", << earlier_year, later_year >>,
                          None, { StrKey(earlier_year), StrKey(later_year) })
              ELSE Output("update_comparison_results", << earlier_year, later_year >>,
                          Some("Selected years not found in datasets."), { })
        /\ UNCHANGED << datasets, app_datasets, rebound, upload_info, selectors,
                        compare_vars, process_vars, codec_vars >>

NextStore ==
    \/ UpdateUploadContent
    \/ CancelProcessing
    \/ ProcessData
    \/ ClearAllDatasets
    \/ UpdateLoadedDatasets
    \/ UpdateAnalysisContent
    \/ UpdateLaterYearOptions
    \/ UpdateComparisonResults

InitStore == NoDatasets /\ NoComparison /\ NoUpload /\ NoCodecCall

SpecStore == InitStore /\ [][NextStore]_vars

-----------------------------------------------------------------------------
(* The comparison of two processed surveys: update_comparison_results,     *)
(* analysis_callbacks.py lines 154-167, calls compare_defects on the       *)
(* defects tables process_data has stored.                                 *)

\* a row of a survey with a depth cell
SurveyRow(cols, d, j, l, w, p) ==
    [ c \in cols |-> IF c = COL_DEPTH THEN p ELSE RawRow(cols, d, j, l, w, NaN)[c] ]

\* the columns of a survey: those process_pipeline_data subscripts and the
\* depth, with or without the type
SurveyColumnSets ==
    { SplitterColumns \cup { COL_DEPTH, COL_TYPE }, SplitterColumns \cup { COL_DEPTH } }

\* the record of joint 1, at distance 0
JointRecord(cols) == SurveyRow(cols, 0, Some("1"), NaN, NaN, NaN)

\* the earlier surveys: the joint and one defect of depth 5 or 10 %
EarlierSurveys(cols) ==
    { << JointRecord(cols), SurveyRow(cols, d, NaN, Some("5"), Some("5"), p) >> :
        d \in { 1, 2 }, p \in { Some("5"), Some("10") } }

\* the later surveys: the joint and up to MaxNew records of depth 10 %, a
\* record with a blank width being no defect
LaterSurveys(cols) ==
    LET records == { SurveyRow(cols, d, NaN, Some("5"), w, Some("10")) :
                       d \in { 1, 2 }, w \in { Some("5"), Some(" ") } }
    IN { << JointRecord(cols) >> \o r : r \in UNION { [ 1 .. n -> records ] : n \in 1 .. MaxNew } }

\* the state at the call of compare_defects by update_comparison_results
\* on the defects tables of the years 1 and 2; the later survey is the last
\* one process_data has processed
ProcessedCall(old_survey, old_order, new_survey, new_order, tolerance) ==
    /\ standardized_df = new_survey
    /\ sort_order = new_order
    /\ split_pc = "standardized"
    /\ returned = << process_pipeline_data(new_survey, new_order) >>
    /\ split_error = None
    /\ old_defects_df = WithArea(process_pipeline_data(old_survey, old_order).defects_df)
    /\ new_defects_df = WithArea(returned[1].defects_df)
    /\ old_year = Some(1)
    /\ new_year = Some(2)
    /\ distance_tolerance = tolerance
    /\ pc = "start"
    /\ calculate_growth = FALSE
    /\ year_diff = None
    /\ has_depth_data = FALSE
    /\ has_wt_data = FALSE
    /\ pos = 0
    /\ matched_old = { }
    /\ matched_new = { }
    /\ matches = << >>
    /\ results = None
    /\ error = None
    /\ display = "none"
    /\ merged_view = None
    /\ NoCodecCall
    /\ NoDatasets

SplitterCalls ==
    \E cols \in SurveyColumnSets :
        \E old_rows \in EarlierSurveys(cols), new_rows \in LaterSurveys(cols),
           tolerance \in Tolerances :
            LET old_survey == [ columns |-> cols, rows |-> old_rows ]
                new_survey == [ columns |-> cols, rows |-> new_rows ]
            IN \E old_order \in SortOrders(old_survey), new_order \in SortOrders(new_survey) :
                   ProcessedCall(old_survey, old_order, new_survey, new_order, tolerance)

SpecSplitCompare == SplitterCalls /\ [][Next]_vars

-----------------------------------------------------------------------------
(* Properties of the matching pass *)

\* the old / new table as the loop sees it
OldRows == WithDefectId(old_defects_df).rows

NewRows == WithDefectId(new_defects_df).rows

\* |old distance - new distance| for an old and a new row position
Separation(k, j) == Abs(old_defects_df.rows[k][COL_DIST] - new_defects_df.rows[j][COL_DIST])

\* no id occurs twice in a list of Matches
PairedOnce(rows) ==
    \A a, b \in DOMAIN rows :
        a # b => /\ rows[a].old_defect_id # rows[b].old_defect_id
                 /\ rows[a].new_defect_id # rows[b].new_defect_id

\* C1: after every iteration of the matching pass and in the returned
\* result, no old defect id and no new defect id occurs in more than one
\* Match.
C1_OneToOne ==
    /\ PairedOnce(matches)
    /\ ~IsNone(results) => PairedOnce(Val(results).matches_df.rows)

\* C1 witness: a result with two Matches whose new defects both lie within
\* the tolerance of the same old defect.
C1_Witness ==
    /\ pc = "returned"
    /\ Len(Val(results).matches_df.rows) = 2
    /\ \E k \in DOMAIN old_defects_df.rows :
           /\ Separation(k, 1) <= distance_tolerance
           /\ Separation(k, 2) <= distance_tolerance

\* C2: new_defects is exactly the new-table rows whose id is in no Match,
\* in table order, and common + new = total = row count of the new table.
C2_Conservation ==
    ~IsNone(results) =>
        LET res == Val(results)
            paired == { res.matches_df.rows[a].new_defect_id : a \in DOMAIN res.matches_df.rows }
        IN /\ { r["defect_id"] : r \in Range(res.new_defects) }
                = { j - 1 : j \in DOMAIN new_defects_df.rows } \ paired
           /\ \A a \in DOMAIN res.new_defects :
                  /\ res.new_defects[a] = NewRows[res.new_defects[a]["defect_id"] + 1]
                  /\ \A b \in DOMAIN res.new_defects :
                         a < b => res.new_defects[a]["defect_id"] < res.new_defects[b]["defect_id"]
           /\ res.common_defects_count = Len(res.matches_df.rows)
           /\ res.new_defects_count = Len(res.new_defects)
           /\ res.common_defects_count + res.new_defects_count = res.total_defects
           /\ res.total_defects = Len(new_defects_df.rows)

\* C2 witness: a result with one matched and one unmatched new defect.
C2_Witness ==
    /\ pc = "returned"
    /\ Val(results).common_defects_count = 1
    /\ Val(results).new_defects_count = 1

\* the old row positions still unconsumed and within the tolerance of the
\* new defect the loop is about to visit
Candidates ==
    { k \in DOMAIN old_defects_df.rows :
        (k - 1) \notin matched_old /\ Separation(k, pos) <= distance_tolerance }

Visiting == pc = "matching" /\ pos <= Len(new_defects_df.rows)

C4_GreedyConsumption ==
    [][ Visiting =>
          /\ matched_old \subseteq matched_old'
          /\ \/ /\ matches' = matches
                /\ matched_old' = matched_old
                /\ (pos - 1) \notin matched_new'
             \/ /\ Len(matches') = Len(matches) + 1
                /\ SubSeq(matches', 1, Len(matches)) = matches
                /\ matches'[Len(matches')].new_defect_id = pos - 1
                /\ matches'[Len(matches')].old_defect_id \notin matched_old
                /\ (matches'[Len(matches')].old_defect_id + 1) \in Candidates
                /\ matched_old' = matched_old \cup { matches'[Len(matches')].old_defect_id } ]_vars

\* the old row position nearest to new row j among all old rows (first on ties)
Nearest(j) ==
    CHOOSE k \in DOMAIN old_defects_df.rows :
        \A i \in DOMAIN old_defects_df.rows :
            Separation(k, j) < Separation(i, j) \/ (Separation(k, j) = Separation(i, j) /\ k <= i)

\* C4 witness: the pass is over; the nearest old defect of the second new
\* defect lies within tolerance but was consumed by the first new defect,
\* and the second new defect was matched to another old defect.
C4_Witness ==
    /\ pc = "returned"
    /\ Len(new_defects_df.rows) >= 2
    /\ Len(old_defects_df.rows) >= 2
    /\ Separation(Nearest(2), 2) <= distance_tolerance
    /\ \E a, b \in DOMAIN matches :
           /\ matches[a].new_defect_id = 0
           /\ matches[a].old_defect_id = Nearest(2) - 1
           /\ matches[b].new_defect_id = 1
           /\ matches[b].old_defect_id # Nearest(2) - 1

\* C4 second case: the later new defect stays unmatched because its only
\* old defect within tolerance was consumed.
C4_WitnessUnmatched ==
    /\ pc = "returned"
    /\ Len(new_defects_df.rows) >= 2
    /\ Len(old_defects_df.rows) >= 1
    /\ Separation(Nearest(2), 2) <= distance_tolerance
    /\ 1 \notin matched_new
    /\ \E a \in DOMAIN matches :
           matches[a].new_defect_id = 0 /\ matches[a].old_defect_id = Nearest(2) - 1

\* the required columns a call's tables lack
LackingColumns ==
    { c \in { COL_DIST, COL_TYPE } :
        c \notin old_defects_df.columns \/ c \notin new_defects_df.columns }

\* C5: when a table lacks the distance or the type column, the call never
\* gets past the column check: nothing is matched, no result is returned,
\* and the raised error names a column that is missing; a call with both
\* columns in both tables raises nothing.
C5_MissingColumnFailsFast ==
    /\ LackingColumns # { } =>
          /\ pc \in { "start", "raised" }
          /\ matches = << >> /\ matched_old = { } /\ matched_new = { }
          /\ results = None
          /\ display = "none"
          /\ pc = "raised" => /\ ~IsNone(error)
                              /\ Val(error).exception = "ValueError"
                              /\ Val(error).column \in LackingColumns
    /\ LackingColumns = { } => pc # "raised" /\ IsNone(error)

\* C5 witness: the error was raised for a call whose new table lacks only
\* the type column.
C5_Witness ==
    /\ pc = "raised"
    /\ LackingColumns = { COL_TYPE }
    /\ COL_TYPE \in old_defects_df.columns
    /\ Val(error).column = COL_TYPE

-----------------------------------------------------------------------------
(* Properties of the growth fields and statistics *)

DepthFields ==
    { "old_depth_pct", "new_depth_pct", "depth_change_pct",
      "growth_rate_pct_per_year", "is_negative_growth" }

\* both years supplied and the new one later
ValidChronology == ~IsNone(old_year) /\ ~IsNone(new_year) /\ Val(new_year) > Val(old_year)

DepthInBoth == COL_DEPTH \in old_defects_df.columns /\ COL_DEPTH \in new_defects_df.columns

\* C6: calculate_growth is set exactly for a valid chronology; a Match
\* carries the depth fields exactly when calculate_growth holds and both
\* tables have the depth column (all five fields or none); the divisor of
\* every rate is new_year - old_year, a positive number.
C6_GrowthEligibility ==
    /\ pc # "start" => calculate_growth = ValidChronology
    /\ ~IsNone(results) =>
          /\ Val(results).calculate_growth = ValidChronology
          /\ Val(results).has_depth_data = DepthInBoth
          /\ Val(results).matches_df.columns \cap DepthFields
                = IF ValidChronology /\ DepthInBoth THEN DepthFields ELSE { }
    /\ \A a \in DOMAIN matches :
          /\ DOMAIN matches[a] \cap DepthFields
                = IF ValidChronology /\ DepthInBoth THEN DepthFields ELSE { }
          /\ "growth_rate_pct_per_year" \in DOMAIN matches[a] =>
                /\ year_diff = Some(Val(new_year) - Val(old_year))
                /\ Val(year_diff) > 0
                /\ ~IsNone(matches[a].growth_rate_pct_per_year) =>
                       Val(matches[a].growth_rate_pct_per_year)[2] = Val(new_year) - Val(old_year)

\* C6 witness: a Match with depth fields from a comparison two years apart.
C6_Witness ==
    /\ pc = "returned"
    /\ ValidChronology
    /\ Val(new_year) - Val(old_year) = 2
    /\ \E a \in DOMAIN matches : DepthFields \subseteq DOMAIN matches[a]

\* C6 second case: a Match without depth fields although both tables have
\* the depth column, because the years are equal.
C6_WitnessNoChronology ==
    /\ pc = "returned"
    /\ DepthInBoth
    /\ ~IsNone(old_year) /\ old_year = new_year
    /\ \E a \in DOMAIN matches : DOMAIN matches[a] \cap DepthFields = { }

\* C7: for every Match with depth fields, the depths are those of the
\* paired rows, depth_change_pct = new - old, is_negative_growth holds
\* exactly when new - old < 0, and the rate is the change divided by
\* new_year - old_year; when a depth is missing the change and the rate are
\* missing and the flag is false.
C7_NegativeGrowthFlag ==
    \A a \in DOMAIN matches :
        "is_negative_growth" \in DOMAIN matches[a] =>
            LET m == matches[a]
                od == old_defects_df.rows[m.old_defect_id + 1][COL_DEPTH]
                nd == new_defects_df.rows[m.new_defect_id + 1][COL_DEPTH]
            IN /\ m.old_depth_pct = od
               /\ m.new_depth_pct = nd
               /\ IF IsNone(od) \/ IsNone(nd)
                  THEN /\ IsNone(m.depth_change_pct)
                       /\ IsNone(m.growth_rate_pct_per_year)
                       /\ m.is_negative_growth = FALSE
                  ELSE /\ m.depth_change_pct = Some(Val(nd) - Val(od))
                       /\ m.is_negative_growth = (Val(nd) - Val(od) < 0)
                       /\ ~IsNone(m.growth_rate_pct_per_year)
                       /\ Val(m.growth_rate_pct_per_year)[1] * (Val(new_year) - Val(old_year))
                             = (Val(nd) - Val(od)) * Val(m.growth_rate_pct_per_year)[2]
                       /\ Val(m.growth_rate_pct_per_year)[2] > 0

\* C7 witness: two years apart, one Match with a negative change (flagged)
\* and one with zero change (not flagged).
C7_Witness ==
    /\ pc = "returned"
    /\ ValidChronology
    /\ Val(new_year) - Val(old_year) = 2
    /\ DepthInBoth
    /\ \E a, b \in DOMAIN matches :
           /\ matches[a].depth_change_pct = Some(-10) /\ matches[a].is_negative_growth
           /\ matches[b].depth_change_pct = Some(0) /\ ~matches[b].is_negative_growth

\* C8: growth_stats is present exactly when the chronology is valid, both
\* tables have the depth column and there is at least one Match.
C8_GrowthStatsPresence ==
    ~IsNone(results) =>
        (~IsNone(Val(results).growth_stats)
            <=> (ValidChronology /\ DepthInBoth /\ Len(Val(results).matches_df.rows) >= 1))

\* C8 witness: a result with a growth_stats block.
C8_Witness ==
    /\ pc = "returned"
    /\ ~IsNone(Val(results).growth_stats)

\* C8 second case: growth-eligible, no Match, no block.
C8_WitnessNoMatch ==
    /\ pc = "returned"
    /\ ValidChronology /\ DepthInBoth
    /\ Len(new_defects_df.rows) >= 1 /\ Len(old_defects_df.rows) >= 1
    /\ IsNone(Val(results).growth_stats)

\* C9: whenever has_depth_data and calculate_growth are both set in a
\* result, growth_stats is present (with the mm statistics when has_wt_data
\* is set), so the display, which checks the two flags and then reads
\* growth_stats, never reads a missing block.
C9_FlagsGateGrowthStats ==
    /\ ~IsNone(results) =>
          ((Val(results).has_depth_data /\ Val(results).calculate_growth) =>
              /\ ~IsNone(Val(results).growth_stats)
              /\ Val(results).has_wt_data =>
                    { "avg_growth_rate_mm", "avg_positive_growth_rate_mm", "max_growth_rate_mm" }
                        \subseteq DOMAIN Val(Val(results).growth_stats))
    /\ display # "TypeError"

\* the sum of depth_change_pct over the Matches at the positions in S
RECURSIVE ChangeSum(_, _)
ChangeSum(rows, S) ==
    IF S = { } THEN 0
    ELSE LET k == CHOOSE k \in S : TRUE
         IN Val(rows[k].depth_change_pct) + ChangeSum(rows, S \ { k })

\* the mean growth rate over the Matches at the positions in S: the sum of
\* their changes over (year difference x their number), taken over the
\* Matches that have a rate (both depths reported); missing when none has
MeanRateOver(rows, S) ==
    LET rated == { k \in S : ~IsNone(rows[k].growth_rate_pct_per_year) }
    IN IF rated = { } THEN NaN
       ELSE Some(<< ChangeSum(rows, rated),
                    (Val(new_year) - Val(old_year)) * Cardinality(rated) >>)

\* x is the largest growth rate among the Matches at the positions in S
IsMaxRateOver(x, rows, S) ==
    LET rated == { k \in S : ~IsNone(rows[k].growth_rate_pct_per_year) }
    IN IF rated = { } THEN IsNone(x)
       ELSE /\ ~IsNone(x)
            /\ \E k \in rated : FracEq(Val(x), Val(rows[k].growth_rate_pct_per_year))
            /\ \A k \in rated : ~FracLt(Val(x), Val(rows[k].growth_rate_pct_per_year))

\* the mean growth rate over every Match at the positions in S: the sum of
\* all their rates over their number, which has no value when one of them
\* has no rate
MeanRateOverAll(rows, S) ==
    IF S = { } \/ \E k \in S : IsNone(rows[k].growth_rate_pct_per_year) THEN NaN
    ELSE Some(<< ChangeSum(rows, S), (Val(new_year) - Val(old_year)) * Cardinality(S) >>)

\* C10 as stated: avg_growth_rate_pct is the mean over all Matches, and the
\* positive average is the mean over all Matches not flagged negative, 0
\* when there is none.
C10_MeanOverAllMatches ==
    (~IsNone(results) /\ ~IsNone(Val(results).growth_stats)) =>
        LET rows == Val(results).matches_df.rows
            stats == Val(Val(results).growth_stats)
            unflagged == { k \in DOMAIN rows : ~rows[k].is_negative_growth }
        IN /\ OptFracEq(stats.avg_growth_rate_pct, MeanRateOverAll(rows, DOMAIN rows))
           /\ IF unflagged = { }
              THEN OptFracEq(stats.avg_positive_growth_rate_pct, Some(<< 0, 1 >>))
              ELSE OptFracEq(stats.avg_positive_growth_rate_pct, MeanRateOverAll(rows, unflagged))

\* C10 (amended): in a growth_stats block, negative_growth_count is the
\* number of Matches with depth change < 0 and pct_negative_growth its
\* share of all Matches; avg_growth_rate_pct is the mean rate over the
\* Matches that have a rate (both depths reported);
\* avg_positive_growth_rate_pct and max_growth_rate_pct are the mean and
\* the maximum over the Matches not flagged negative that have a rate (zero
\* change included); both are 0 when every Match is flagged negative, and
\* missing when unflagged Matches exist but none has a rate.
C10_GrowthStatistics ==
    (~IsNone(results) /\ ~IsNone(Val(results).growth_stats)) =>
        LET rows == Val(results).matches_df.rows
            stats == Val(Val(results).growth_stats)
            shrunk == { k \in DOMAIN rows :
                          ~IsNone(rows[k].depth_change_pct) /\ Val(rows[k].depth_change_pct) < 0 }
            unflagged == { k \in DOMAIN rows : ~rows[k].is_negative_growth }
        IN /\ stats.total_matched_defects = Len(rows)
           /\ stats.negative_growth_count = Cardinality(shrunk)
           /\ FracEq(stats.pct_negative_growth, << 100 * Cardinality(shrunk), Len(rows) >>)
           /\ OptFracEq(stats.avg_growth_rate_pct, MeanRateOver(rows, DOMAIN rows))
           /\ unflagged = DOMAIN rows \ shrunk
           /\ IF unflagged = { }
              THEN /\ OptFracEq(stats.avg_positive_growth_rate_pct, Some(<< 0, 1 >>))
                   /\ OptFracEq(stats.max_growth_rate_pct, Some(<< 0, 1 >>))
              ELSE /\ OptFracEq(stats.avg_positive_growth_rate_pct, MeanRateOver(rows, unflagged))
                   /\ IsMaxRateOver(stats.max_growth_rate_pct, rows, unflagged)

\* C10 witness: a block over a negative and a zero-change Match: one
\* negative, and the positive statistics are taken over the zero-change
\* Match alone.
C10_Witness ==
    /\ pc = "returned"
    /\ ~IsNone(Val(results).growth_stats)
    /\ Val(Val(results).growth_stats).negative_growth_count = 1
    /\ Len(matches) = 2
    /\ \E a \in DOMAIN matches : matches[a].depth_change_pct = Some(0)

\* C10 second case: every Match is flagged negative and the positive
\* statistics are 0.
C10_WitnessAllNegative ==
    /\ pc = "returned"
    /\ ~IsNone(Val(results).growth_stats)
    /\ Val(Val(results).growth_stats).negative_growth_count = 2
    /\ Val(Val(results).growth_stats).max_growth_rate_pct = Some(<< 0, 1 >>)

\* C10 third case: a zero-change and a growing Match, so that the mean
\* over the unflagged Matches is half the growing Match's rate.
C10_WitnessZeroAndGrowing ==
    /\ pc = "returned"
    /\ ~IsNone(Val(results).growth_stats)
    /\ \E a, b \in DOMAIN matches :
           /\ matches[a].depth_change_pct = Some(0)
           /\ matches[b].depth_change_pct = Some(10)

-----------------------------------------------------------------------------
(* Properties of the millimetre fields *)

MmFields == { "old_depth_mm", "new_depth_mm", "depth_change_mm", "growth_rate_mm_per_year" }

WtInBoth == COL_WT \in old_defects_df.columns /\ COL_WT \in new_defects_df.columns

\* x * (w / 200) for an optional integer x
TimesAvgWt(x, w) == IF IsNone(x) THEN NaN ELSE Some(<< Val(x) * w, 200 >>)

\* x * (w / 200) for an optional fraction x
RateTimesAvgWt(x, w) == IF IsNone(x) THEN NaN ELSE Some(<< Val(x)[1] * w, Val(x)[2] * 200 >>)

\* C11: a Match carries the mm fields exactly when it carries the depth
\* fields and both tables have the wall-thickness column (all four or
\* none).  With avg_wt the mean of the paired rows' wall thicknesses,
\* old_depth_mm = old_depth_pct * avg_wt / 100, new_depth_mm =
\* new_depth_pct * avg_wt / 100, growth_rate_mm_per_year =
\* (new_depth_mm - old_depth_mm) / (new_year - old_year), which equals
\* growth_rate_pct_per_year * avg_wt / 100.
C11_MmFields ==
    /\ \A a \in DOMAIN matches :
          LET m == matches[a]
          IN /\ DOMAIN m \cap MmFields
                   = IF DepthFields \subseteq DOMAIN m /\ WtInBoth THEN MmFields ELSE { }
             /\ "old_depth_mm" \in DOMAIN m =>
                   LET w == old_defects_df.rows[m.old_defect_id + 1][COL_WT]
                              + new_defects_df.rows[m.new_defect_id + 1][COL_WT]
                       yd == Val(new_year) - Val(old_year)
                   IN /\ OptFracEq(m.old_depth_mm, TimesAvgWt(m.old_depth_pct, w))
                      /\ OptFracEq(m.new_depth_mm, TimesAvgWt(m.new_depth_pct, w))
                      /\ IsNone(m.growth_rate_mm_per_year)
                            = (IsNone(m.old_depth_mm) \/ IsNone(m.new_depth_mm))
                      /\ ~IsNone(m.growth_rate_mm_per_year) =>
                            /\ Val(m.growth_rate_mm_per_year)[2] > 0
                            /\ Val(m.growth_rate_mm_per_year)[1]
                                   * Val(m.old_depth_mm)[2] * Val(m.new_depth_mm)[2] * yd
                                 = (Val(m.new_depth_mm)[1] * Val(m.old_depth_mm)[2]
                                      - Val(m.old_depth_mm)[1] * Val(m.new_depth_mm)[2])
                                   * Val(m.growth_rate_mm_per_year)[2]
                      /\ OptFracEq(m.growth_rate_mm_per_year,
                                   RateTimesAvgWt(m.growth_rate_pct_per_year, w))
    /\ ~IsNone(results) =>
          Val(results).matches_df.columns \cap MmFields
             = IF ValidChronology /\ DepthInBoth /\ WtInBoth THEN MmFields ELSE { }

\* C11 witness: two years apart, a Match of an old defect with a 10 mm wall
\* and a new defect with a 14 mm wall, grown from 20 % to 30 %: 2.4 mm to
\* 3.6 mm, 0.6 mm per year.
C11_Witness ==
    /\ pc = "returned"
    /\ ValidChronology
    /\ Val(new_year) - Val(old_year) = 2
    /\ \E a \in DOMAIN matches :
           /\ MmFields \subseteq DOMAIN matches[a]
           /\ old_defects_df.rows[matches[a].old_defect_id + 1][COL_WT] = 10
           /\ new_defects_df.rows[matches[a].new_defect_id + 1][COL_WT] = 14
           /\ matches[a].new_depth_pct = Some(30)
           /\ FracEq(Val(matches[a].old_depth_mm), << 24, 10 >>)
           /\ FracEq(Val(matches[a].new_depth_mm), << 36, 10 >>)
           /\ FracEq(Val(matches[a].growth_rate_mm_per_year), << 6, 10 >>)

\* C11 second case: a Match with depth fields and no mm fields, because the
\* new table has no wall-thickness column.
C11_WitnessNoWt ==
    /\ pc = "returned"
    /\ COL_WT \in old_defects_df.columns
    /\ COL_WT \notin new_defects_df.columns
    /\ \E a \in DOMAIN matches :
           DepthFields \subseteq DOMAIN matches[a] /\ DOMAIN matches[a] \cap MmFields = { }

-----------------------------------------------------------------------------
(* Properties of the counts and the type distribution *)

Returned == pc \in { "returned", "displayed" }

\* C12: a call on tables that have the required columns raises nothing and
\* returns.  With an empty new table the result has total_defects 0,
\* pct_common 0, pct_new 0, no Matches and an empty type distribution; with
\* an empty old table every new defect is reported as new; when the new
\* table has rows, pct_common = common / total * 100 and pct_new =
\* new_count / total * 100.
C12_DegenerateTables ==
    /\ LackingColumns = { } =>
          /\ pc # "raised" /\ IsNone(error)
          /\ pc = "matching" => pos \in 1 .. Len(new_defects_df.rows) + 1
    /\ Returned =>
          /\ ~IsNone(results)
          /\ LET res == Val(results)
             IN /\ Len(new_defects_df.rows) = 0 =>
                      /\ res.total_defects = 0
                      /\ res.pct_common = << 0, 1 >>
                      /\ res.pct_new = << 0, 1 >>
                      /\ res.matches_df.rows = << >>
                      /\ res.common_defects_count = 0
                      /\ res.new_defects = << >>
                      /\ res.defect_type_distribution = { }
                /\ Len(old_defects_df.rows) = 0 =>
                      /\ res.matches_df.rows = << >>
                      /\ res.new_defects = NewRows
                      /\ res.new_defects_count = Len(new_defects_df.rows)
                /\ Len(new_defects_df.rows) > 0 =>
                      /\ res.pct_common[2] > 0 /\ res.pct_new[2] > 0
                      /\ FracEq(res.pct_common,
                                << res.common_defects_count * 100, res.total_defects >>)
                      /\ FracEq(res.pct_new,
                                << res.new_defects_count * 100, res.total_defects >>)

\* C12 witness: the result of comparing a non-empty old table with an empty
\* new table.
C12_Witness ==
    /\ pc = "returned"
    /\ Len(new_defects_df.rows) = 0
    /\ Len(old_defects_df.rows) > 0
    /\ Val(results).total_defects = 0

\* C12 second case: an empty old table and two new defects, both reported
\* as new.
C12_WitnessEmptyOld ==
    /\ pc = "returned"
    /\ Len(old_defects_df.rows) = 0
    /\ Len(new_defects_df.rows) = 2
    /\ Val(results).new_defects_count = 2
    /\ FracEq(Val(results).pct_new, << 100, 1 >>)

\* C12 third case: one of two new defects matched, 50 % each.
C12_WitnessHalf ==
    /\ pc = "returned"
    /\ FracEq(Val(results).pct_common, << 50, 1 >>)
    /\ FracEq(Val(results).pct_new, << 50, 1 >>)

\* the rows of the new table no Match of the result pairs
UnmatchedRows(res) ==
    { j \in DOMAIN new_defects_df.rows :
        \A a \in DOMAIN res.matches_df.rows : res.matches_df.rows[a].new_defect_id # j - 1 }

RECURSIVE SumCounts(_)
SumCounts(dist) ==
    IF dist = { } THEN 0
    ELSE LET d == CHOOSE d \in dist : TRUE IN d.count + SumCounts(dist \ { d })

\* each entry of the distribution counts the unmatched new rows of its type
\* and gives their share of new_defects_count; no type has two entries
EntriesCountUnmatched(res) ==
    /\ \A d \in res.defect_type_distribution :
          /\ d.count = Cardinality({ j \in UnmatchedRows(res) :
                                       new_defects_df.rows[j][COL_TYPE] = d.defect_type })
          /\ d.count > 0
          /\ FracEq(d.percentage, << d.count * 100, res.new_defects_count >>)
    /\ \A d, e \in res.defect_type_distribution : d.defect_type = e.defect_type => d = e

\* C13: the type distribution is computed over the unmatched new defects
\* only: the count of a type is the number of unmatched new rows of that
\* type, its percentage is count / new_defects_count * 100, matched new
\* defects are in no count, and every unmatched new defect is counted under
\* its type, so that the counts sum to new_defects_count.
C13_TypeDistribution ==
    ~IsNone(results) =>
        LET res == Val(results)
        IN /\ EntriesCountUnmatched(res)
           /\ \A j \in UnmatchedRows(res) :
                  \E d \in res.defect_type_distribution :
                      d.defect_type = new_defects_df.rows[j][COL_TYPE]
           /\ SumCounts(res.defect_type_distribution) = res.new_defects_count

\* C13 on the rows that have a type: the entries count the unmatched rows
\* of their type, every unmatched row with a type is counted under it, and
\* the counts sum to the number of unmatched rows that have a type.
C13_TypedRowsCounted ==
    ~IsNone(results) =>
        LET res == Val(results)
            typed == { j \in UnmatchedRows(res) : ~IsNone(new_defects_df.rows[j][COL_TYPE]) }
        IN /\ EntriesCountUnmatched(res)
           /\ \A j \in typed :
                  \E d \in res.defect_type_distribution :
                      d.defect_type = new_defects_df.rows[j][COL_TYPE]
           /\ SumCounts(res.defect_type_distribution) = Cardinality(typed)

\* C13 case: a matched and an unmatched new defect of different types; the
\* distribution has the unmatched one's type only.
C13_WitnessMatchedLeftOut ==
    /\ pc = "returned"
    /\ Len(matches) = 1
    /\ Len(new_defects_df.rows) = 2
    /\ \A j \in 1 .. 2 : ~IsNone(new_defects_df.rows[j][COL_TYPE])
    /\ new_defects_df.rows[1][COL_TYPE] # new_defects_df.rows[2][COL_TYPE]
    /\ Cardinality(Val(results).defect_type_distribution) = 1

\* C13 case: an unmatched new defect without a type, which no entry counts.
C13_WitnessUntyped ==
    /\ pc = "returned"
    /\ Val(results).new_defects_count = 2
    /\ SumCounts(Val(results).defect_type_distribution) = 1

-----------------------------------------------------------------------------
(* Properties of the pass as a whole *)

\* the (old_defect_id, new_defect_id) pairs of a list of Matches
Pairs(rows) == { << rows[a].old_defect_id, rows[a].new_defect_id >> : a \in DOMAIN rows }

\* the rows with every anomaly type replaced by one and the same type
Retyped(rows) == [ k \in DOMAIN rows |-> [ rows[k] EXCEPT ![COL_TYPE] = Some("corrosion") ] ]

\* C14: matching is distance-only.  The pairs a run returns are the pairs
\* of the run on the same tables with every anomaly type replaced by one
\* type (same distances, row order and tolerance); hence any two runs whose
\* inputs differ only in the anomaly types return the same pairs.
C14_DistanceOnly ==
    Returned =>
        /\ Pairs(Val(results).matches_df.rows)
              = PassFrom(Retyped(OldRows), Retyped(NewRows), distance_tolerance, 1, { })
        /\ Pairs(matches) = Pairs(Val(results).matches_df.rows)

\* C14 witness: a new defect matched to an old defect of another type,
\* the nearest unconsumed one within tolerance, an old defect of the new
\* defect's own type lying within tolerance too.
C14_Witness ==
    /\ pc = "returned"
    /\ \E a \in DOMAIN matches :
          LET o == old_defects_df.rows[matches[a].old_defect_id + 1]
              n == new_defects_df.rows[matches[a].new_defect_id + 1]
          IN /\ ~IsNone(o[COL_TYPE]) /\ ~IsNone(n[COL_TYPE])
             /\ o[COL_TYPE] # n[COL_TYPE]
             /\ \E k \in DOMAIN old_defects_df.rows :
                   /\ old_defects_df.rows[k][COL_TYPE] = n[COL_TYPE]
                   /\ k - 1 # matches[a].old_defect_id
                   /\ k - 1 \notin matched_old
                   /\ Separation(k, matches[a].new_defect_id + 1) <= distance_tolerance
                   /\ Separation(k, matches[a].new_defect_id + 1) > matches[a].distance_diff

\* the new_defect_id of a list of Matches increases along the list
IncreasingNewIds(rows) ==
    \A a, b \in DOMAIN rows : a < b => rows[a].new_defect_id < rows[b].new_defect_id

\* the new table with its rows in the order p
PermutedNew(p) ==
    WithDefectId([ columns |-> new_defects_df.columns,
                   rows |-> [ k \in DOMAIN new_defects_df.rows |-> new_defects_df.rows[p[k]] ] ]).rows

\* pairs of ids as pairs of the old id and the new defect's distance
Positions(pairs, new_rows) == { << pr[1], new_rows[pr[2] + 1][COL_DIST] >> : pr \in pairs }

\* the pairs (old row, new row) that lie within the tolerance
WithinTolerance ==
    { pr \in (DOMAIN old_defects_df.rows) \X (DOMAIN new_defects_df.rows) :
        Separation(pr[1], pr[2]) <= distance_tolerance }

\* no row occurs in two pairs of S
IsPairing(S) == \A pr, qr \in S : pr # qr => pr[1] # qr[1] /\ pr[2] # qr[2]

\* C15: the pass visits the new defects once, in the row order of the new
\* table: while the loop is at row pos the Matches recorded are those of
\* the rows before pos, in increasing new_defect_id, and the returned pairs
\* are the pairs of the single pass over the rows in table order.
C15_RowOrderPass ==
    /\ IncreasingNewIds(matches)
    /\ pc = "matching" =>
          /\ \A a \in DOMAIN matches : matches[a].new_defect_id < pos - 1
          /\ matched_new = { matches[a].new_defect_id : a \in DOMAIN matches }
          /\ Pairs(matches) \subseteq PassFrom(OldRows, NewRows, distance_tolerance, 1, { })
    /\ Returned =>
          /\ IncreasingNewIds(Val(results).matches_df.rows)
          /\ Pairs(Val(results).matches_df.rows)
                = PassFrom(OldRows, NewRows, distance_tolerance, 1, { })

\* C15 witness: a returned pass that is order-dependent and not optimal:
\* another order of the new table's rows pairs other positions, and a
\* one-to-one pairing within tolerance larger than the returned one exists.
C15_Witness ==
    /\ pc = "returned"
    /\ Len(matches) >= 1
    /\ \E p \in RowOrders(Len(new_defects_df.rows)) :
           Positions(PassFrom(OldRows, PermutedNew(p), distance_tolerance, 1, { }), PermutedNew(p))
              # Positions(Pairs(matches), NewRows)
    /\ \E S \in SUBSET WithinTolerance : IsPairing(S) /\ Cardinality(S) > Len(matches)

\* C15 case: two new defects on either side of one old defect; the one
\* that comes first in the table takes it, whichever it is.
C15_WitnessOrderOnly ==
    /\ pc = "returned"
    /\ Len(old_defects_df.rows) = 1 /\ Len(new_defects_df.rows) = 2
    /\ Pairs(matches) = { << 0, 0 >> }
    /\ new_defects_df.rows[1][COL_DIST] # new_defects_df.rows[2][COL_DIST]
    /\ PassFrom(OldRows, PermutedNew(<< 2, 1 >>), distance_tolerance, 1, { }) = { << 0, 0 >> }

-----------------------------------------------------------------------------
(* Properties of the joints and the defects table *)

\* the records of the upload with blank cells missing and the numeric
\* columns as numbers, in upload order
Records == ToNumericColumns(ReplaceEmptyStrings(standardized_df)).rows

\* the joint numbers the records carry
JointNumbers == { Records[k][COL_JOINT] : k \in DOMAIN Records } \ { NaN }

\* the records that carry the joint number j
Carrying(j) == { k \in DOMAIN Records : Records[k][COL_JOINT] = j }

\* the position of record k in ascending log-distance order
Rank(k) == CHOOSE a \in DOMAIN sort_order : sort_order[a] = k

\* C16: every joints table returned has exactly one row for each joint
\* number the records carry and no row without a joint number; the row of
\* a joint number is the projection of the first record carrying it in
\* ascending log-distance order, a record no other record of that joint
\* number lies before.
C16_JointsTable ==
    \A n \in DOMAIN returned :
        LET joints == returned[n].joints_df.rows
        IN /\ \A a \in DOMAIN joints : ~IsNone(joints[a][COL_JOINT])
           /\ { joints[a][COL_JOINT] : a \in DOMAIN joints } = JointNumbers
           /\ Len(joints) = Cardinality(JointNumbers)
           /\ \A a \in DOMAIN joints :
                 \E k \in Carrying(joints[a][COL_JOINT]) :
                     /\ joints[a] = [ c \in joint_columns |-> Records[k][c] ]
                     /\ \A i \in Carrying(joints[a][COL_JOINT]) :
                            /\ Rank(k) <= Rank(i)
                            /\ Records[k][COL_DIST] <= Records[i][COL_DIST]

\* C16 witness: joint 1 is carried by a record at distance 2 and, later in
\* the upload, by a record at distance 1; another record has no joint
\* number; the joints table has the one row of joint 1 at distance 1.
C16_Witness ==
    /\ Len(returned) >= 1
    /\ Len(standardized_df.rows) = 3
    /\ \E k, i, m \in DOMAIN Records :
           /\ k < i
           /\ Records[k][COL_JOINT] = Some(1) /\ Records[k][COL_DIST] = 2
           /\ Records[i][COL_JOINT] = Some(1) /\ Records[i][COL_DIST] = 1
           /\ IsNone(Records[m][COL_JOINT])
    /\ Len(returned[1].joints_df.rows) = 1
    /\ returned[1].joints_df.rows[1][COL_DIST] = 1

\* C16 second case: a joint number cell that is blank or not a number
\* gives no joints row.
C16_WitnessBlankJoint ==
    /\ Len(returned) >= 1
    /\ \E k \in DOMAIN standardized_df.rows : standardized_df.rows[k][COL_JOINT] = Some(" ")
    /\ returned[1].joints_df.rows = << >>

\* the records with both a length and a width
DefectRecords ==
    { k \in DOMAIN Records : ~IsNone(Records[k][COL_LENGTH]) /\ ~IsNone(Records[k][COL_WIDTH]) }

\* the records with a joint number that lie before record k in ascending
\* log-distance order
JointsBefore(k) == { i \in DOMAIN Records : Rank(i) < Rank(k) /\ ~IsNone(Records[i][COL_JOINT]) }

\* the joint number a defect made of record k is to carry
AssociatedJoint(k) ==
    IF ~IsNone(Records[k][COL_JOINT]) THEN Records[k][COL_JOINT]
    ELSE IF JointsBefore(k) = { } THEN NaN
    ELSE LET i == CHOOSE i \in JointsBefore(k) : \A m \in JointsBefore(k) : Rank(m) <= Rank(i)
         IN Records[i][COL_JOINT]

\* the record the b-th row of the defects table is made of: the defect
\* record with b - 1 defect records before it
DefectRecord(b) ==
    CHOOSE k \in DefectRecords :
        Cardinality({ i \in DefectRecords : Rank(i) < Rank(k) }) = b - 1

\* C17: every defects table returned has one row for each record with both
\* a length and a width and no other row, in ascending log-distance
\* order; the row carries the record's distance, length and width, and as
\* joint number the record's own if it has one, otherwise that of the
\* nearest preceding record that has one, and none if there is no such
\* record.
C17_DefectsTable ==
    \A n \in DOMAIN returned :
        LET defects == returned[n].defects_df.rows
        IN /\ Len(defects) = Cardinality(DefectRecords)
           /\ \A b \in DOMAIN defects :
                 /\ ~IsNone(defects[b][COL_LENGTH]) /\ ~IsNone(defects[b][COL_WIDTH])
                 /\ defects[b][COL_DIST] = Records[DefectRecord(b)][COL_DIST]
                 /\ defects[b][COL_LENGTH] = Records[DefectRecord(b)][COL_LENGTH]
                 /\ defects[b][COL_WIDTH] = Records[DefectRecord(b)][COL_WIDTH]
                 /\ defects[b][COL_JOINT] = AssociatedJoint(DefectRecord(b))

\* C17 witness: a defect without a joint number that lies after the
\* records of joint 1 and joint 2 and carries joint 2, the nearer one, the
\* record of joint 2 coming first in the upload.
C17_Witness ==
    /\ Len(returned) >= 1
    /\ Len(standardized_df.rows) = 3
    /\ Records[1][COL_JOINT] = Some(2)
    /\ \E k, i \in DOMAIN Records :
           /\ k \in DefectRecords /\ IsNone(Records[k][COL_JOINT])
           /\ Records[i][COL_JOINT] = Some(1)
           /\ Rank(i) < Rank(1) /\ Rank(1) < Rank(k)
    /\ Len(returned[1].defects_df.rows) = 1
    /\ returned[1].defects_df.rows[1][COL_JOINT] = Some(2)

\* C17 second case: a defect that no record with a joint number precedes
\* has no joint number, and a record with a length only is no defect.
C17_WitnessUnassigned ==
    /\ Len(returned) >= 1
    /\ Len(standardized_df.rows) = 2
    /\ \E k \in DOMAIN Records :
           /\ ~IsNone(Records[k][COL_LENGTH]) /\ IsNone(Records[k][COL_WIDTH])
           /\ ~IsNone(Records[k][COL_JOINT])
           /\ \E i \in DefectRecords : Rank(i) < Rank(k)
    /\ Len(returned[1].defects_df.rows) = 1
    /\ IsNone(returned[1].defects_df.rows[1][COL_JOINT])

C19_NoDistanceColumn ==
    (COL_DIST \notin standardized_df.columns
        /\ SplitterColumns \ { COL_DIST } \subseteq standardized_df.columns) =>
        /\ split_pc # "raised"
        /\ IsNone(split_error)
        /\ \A n \in DOMAIN returned :
              /\ Len(returned[n].joints_df.rows) = Cardinality(JointNumbers)
              /\ Len(returned[n].defects_df.rows) = Cardinality(DefectRecords)
              /\ \A b \in DOMAIN returned[n].defects_df.rows :
                     returned[n].defects_df.rows[b][COL_JOINT] = AssociatedJoint(DefectRecord(b))

\* C19 case: the KeyError raised for an upload of two records that lacks
\* nothing but the distance column.
C19_WitnessKeyError ==
    /\ split_pc = "raised"
    /\ standardized_df.columns = SplitterColumns \ { COL_DIST }
    /\ Len(standardized_df.rows) = 2
    /\ Val(split_error).columns = { COL_DIST }

-----------------------------------------------------------------------------
(* Properties of standardize_surface_location *)

\* out is the value the normalizer is to return for a text or missing cell
\* that is not the empty text
NormalizedText(value, out) ==
    /\ IsNone(value) => IsNone(out)
    /\ ~IsNone(value) =>
          IF StripUpper(Val(value)) \in InternalNames THEN out = Some("INT")
          ELSE IF StripUpper(Val(value)) \in ExternalNames THEN out = Some("NON-INT")
          ELSE out = value
    /\ standardize_surface_location(out) = out

\* the step that standardizes the surface location column of an upload
Standardizing == split_pc = "mapped" /\ COL_SURFACE \in standardized_df.columns

\* C20: the normalizer returns null for a null or an empty input, "INT"
\* for a value that trimmed and upper-cased is one of INT, I, INTERNAL,
\* YES, INTERNE, "NON-INT" for one that is one of NON-INT, E, EXTERNAL, NO,
\* NON INT, EXTERNE, and every other value as it is; applying it to its
\* result gives the result again.
C20_Normalizer ==
    [][ Standardizing =>
          \A k \in DOMAIN standardized_df.rows :
              LET value == standardized_df.rows[k][COL_SURFACE]
                  out == standardized_df'.rows[k][COL_SURFACE]
              IN IF value = Some("") THEN IsNone(out) ELSE NormalizedText(value, out) ]_vars

\* C20 on every input but the empty text: null for null, the two standard
\* names for their synonyms, every other value as it is, idempotent.
C20_NormalizerOnText ==
    [][ Standardizing =>
          \A k \in DOMAIN standardized_df.rows :
              LET value == standardized_df.rows[k][COL_SURFACE]
                  out == standardized_df'.rows[k][COL_SURFACE]
              IN value # Some("") => NormalizedText(value, out) ]_vars

\* C20 case: a column with a synonym of each name and an unknown value has
\* been standardized, and the defects table carries the same values.
C20_WitnessSynonyms ==
    /\ Len(returned) >= 1
    /\ COL_SURFACE \in standardized_df.columns
    /\ Len(standardized_df.rows) = 2
    /\ standardized_df.rows[1][COL_SURFACE] = Some(" Int. ")
    /\ standardized_df.rows[2][COL_SURFACE] = Some("NON-INT")
    /\ Len(returned[1].defects_df.rows) = 2
    /\ returned[1].defects_df.rows[1][COL_SURFACE] = Some(" Int. ")
    /\ returned[1].defects_df.rows[2][COL_SURFACE] = Some("NON-INT")

\* C20 case: the empty text has come back as it was.
C20_WitnessEmptyText ==
    /\ split_pc = "standardized"
    /\ COL_SURFACE \in standardized_df.columns
    /\ \E k \in DOMAIN standardized_df.rows : standardized_df.rows[k][COL_SURFACE] = Some("")

-----------------------------------------------------------------------------
(* C21: the wrap and the hour and minute fields of decimal_to_clock_str *)

\* the calls of a codec function made so far
CallsOf(function) == { k \in DOMAIN clock_log : clock_log[k].function = function }

\* the calls of decimal_to_clock_str on a sixteenth of an hour, a value all
\* arithmetic of the function is exact on
SixteenthCalls ==
    { k \in CallsOf("decimal_to_clock_str") :
        /\ ~IsNone(clock_log[k].argument)
        /\ Len(Val(clock_log[k].argument).frac) <= 4 }

\* the number of sixteenths of a double with four fraction digits or fewer
Sixteenths(x) ==
    LET digit(k) == IF k <= Len(x.frac) THEN x.frac[k] ELSE 0
        n == 16 * x.int + 8 * digit(1) + 4 * digit(2) + 2 * digit(3) + digit(4)
    IN IF x.neg THEN -n ELSE n

\* the quotient of n by d cut toward zero, and what is left
Cut(n, d) == IF n < 0 THEN -((-n) \div d) ELSE n \div d

Left(n, d) == n - d * Cut(n, d)

\* the text of the hour h and the minutes m
ClockText(h, m) == FormatD(h) \o << ":" >> \o Format02d(m)

\* the wrap as the claim states it, in sixteenths: 12 is added to a value
\* <= 0, a value > 12 is reduced modulo 12 with 0 becoming 12
WrappedUpToZero(n) ==
    IF n <= 0 THEN n + 192
    ELSE IF n > 192 THEN (IF n % 192 = 0 THEN 192 ELSE n % 192)
    ELSE n

\* the wrap of the code, in sixteenths: 12 is added to a value < 1
WrappedBelowOne(n) ==
    IF n < 16 THEN n + 192
    ELSE IF n > 192 THEN (IF n % 192 = 0 THEN 192 ELSE n % 192)
    ELSE n

\* m is the remainder r (in sixteenths of an hour) rounded to whole minutes
RoundedMinutes(m, r) == 2 * Abs(16 * m - 60 * r) <= 16

C21_WitnessCut ==
    \E k \in SixteenthCalls :
        /\ Sixteenths(Val(clock_log[k].argument)) = 81
        /\ clock_log[k].result = Some(<< "5", ":", "0", "3" >>)

\* C21 case: a value below -12 stays below 1 after the one addition; -12.5
\* has become "0:-30".
C21_WitnessBelowMinusTwelve ==
    \E k \in SixteenthCalls :
        /\ Sixteenths(Val(clock_log[k].argument)) = -200
        /\ clock_log[k].result = Some(<< "0", ":", "-", "3", "0" >>)

-----------------------------------------------------------------------------
(* C22: null arguments and unparsable texts *)

\* the characters of a text that writes two integers around one colon
NumberChars == { Digits[k] : k \in 1..10 } \cup { " ", "+", "-", ":" }

\* the number of colons of a text
Colons(text) == Cardinality({ k \in DOMAIN text : text[k] = ":" })

\* texts that are not two integers around a colon: not exactly one colon, a
\* character no integer is written with, or no digit on a side of the colon
Unparsable(text) ==
    \/ Colons(text) # 1
    \/ \E k \in DOMAIN text : text[k] \notin NumberChars
    \/ \E c \in DOMAIN text :
           /\ text[c] = ":"
           /\ \/ \A k \in 1..(c - 1) : ~IsDigit(text[k])
              \/ \A k \in (c + 1)..Len(text) : ~IsDigit(text[k])

\* the calls of parse_clock on an unparsable text
UnparsableCalls ==
    { k \in CallsOf("parse_clock") :
        IF IsNone(clock_log[k].argument) THEN FALSE
        ELSE Unparsable(Val(clock_log[k].argument)) }

\* the calls on a null argument
NullCalls == { k \in DOMAIN clock_log : IsNone(clock_log[k].argument) }

\* C22 as claimed: each of the three codec functions returns a null for a
\* null argument, and parse_clock returns the not-a-number, raising
\* nothing, for every unparsable text.
C22_NullIn_NullOut ==
    /\ \A k \in NullCalls : IsNone(clock_log[k].result) /\ IsNone(clock_log[k].raised)
    /\ \A k \in UnparsableCalls : IsNone(clock_log[k].result) /\ IsNone(clock_log[k].raised)

\* C22 amended: float_to_clock and parse_clock return a null for a null
\* argument, decimal_to_clock_str returns the text "Unknown" for it, and
\* parse_clock returns the not-a-number, raising nothing, for every
\* unparsable text.
C22_NullArguments ==
    /\ \A k \in NullCalls :
           /\ IsNone(clock_log[k].raised)
           /\ IF clock_log[k].function = "decimal_to_clock_str"
              THEN clock_log[k].result = Some(Unknown)
              ELSE IsNone(clock_log[k].result)
    /\ \A k \in UnparsableCalls : IsNone(clock_log[k].result) /\ IsNone(clock_log[k].raised)

\* C22 case: parse_clock has returned the not-a-number for "5:3x", and
\* decimal_to_clock_str has made "Unknown" of it.
C22_Witness ==
    /\ Len(clock_log) = 2
    /\ clock_log[1].function = "parse_clock"
    /\ clock_log[1].argument = Some(<< "5", ":", "3", "x" >>)
    /\ 1 \in UnparsableCalls
    /\ IsNone(clock_log[1].result)
    /\ clock_log[2].function = "decimal_to_clock_str"
    /\ clock_log[2].result = Some(Unknown)

\* C22 cases: parse_clock and float_to_clock have been called on a null.
C22_WitnessNullText ==
    \E k \in NullCalls : clock_log[k].function = "parse_clock" /\ k = 1

C22_WitnessNullFloat ==
    \E k \in NullCalls : clock_log[k].function = "float_to_clock" /\ k = 1

\* C22 case: every text of the other forms that parses is a text outside
\* Unparsable (e.g. " 5:30 " is 5.5).
C22_WitnessParsable ==
    /\ Len(clock_log) = 1
    /\ clock_log[1].function = "parse_clock"
    /\ clock_log[1].argument = Some(<< " ", "5", ":", "3", "0", " " >>)
    /\ clock_log[1].result = Some(IntTrueDiv(11, 2))

-----------------------------------------------------------------------------
(* C28: the round trip of a clock-face text *)

\* the texts H:MM with H in 1..12 and MM in 00..59
ClockFace == { ClockText(h, m) : h \in 1..12, m \in 0..59 }

\* a clock-face text has been parsed and the decimal formatted
RoundTripped ==
    /\ Len(clock_log) >= 2
    /\ clock_log[1].function = "parse_clock"
    /\ clock_log[1].argument \in { Some(text) : text \in ClockFace }
    /\ clock_log[2].function = "decimal_to_clock_str"

\* C28: decimal_to_clock_str(parse_clock(H:MM)) is H:MM for every H in
\* 1..12 and MM in 00..59, and decimal_to_clock_str always prints an hour
\* between 1 and 12 and minutes between 00 and 59.
C28_RoundTrip ==
    /\ RoundTripped => clock_log[2].result = clock_log[1].argument
    /\ \A k \in CallsOf("decimal_to_clock_str") :
           IsNone(clock_log[k].argument)
               \/ clock_log[k].result \in { Some(text) : text \in ClockFace }

\* C28 case: "1:01" has come back as "1:00"; the decimal 1 + 1/60 is not a
\* double, the nearest double is below it and the minutes are cut.
C28_WitnessMinuteLost ==
    /\ RoundTripped
    /\ clock_log[1].argument = Some(<< "1", ":", "0", "1" >>)
    /\ clock_log[2].result = Some(<< "1", ":", "0", "0" >>)

\* C28 case: "12:30" has come back as "0:30".
C28_WitnessTwelve ==
    /\ RoundTripped
    /\ clock_log[1].argument = Some(<< "1", "2", ":", "3", "0" >>)
    /\ clock_log[2].result = Some(<< "0", ":", "3", "0" >>)

\* C28 case: "5:54" has come back as it was.
C28_WitnessKept ==
    /\ RoundTripped
    /\ clock_log[1].argument = Some(<< "5", ":", "5", "4" >>)
    /\ clock_log[2].result = Some(<< "5", ":", "5", "4" >>)

-----------------------------------------------------------------------------
(* C29: the fields of float_to_clock *)

\* the calls of float_to_clock on a fraction of a day f, 0 <= f < 1
DayFractionCalls ==
    { k \in CallsOf("float_to_clock") :
        IF IsNone(clock_log[k].argument) THEN FALSE
        ELSE ~Val(clock_log[k].argument).neg /\ Val(clock_log[k].argument).int = 0 }

\* C29: for a fraction of a day f with 0 <= f < 1, float_to_clock(f) is
\* HH:MM with HH between 00 and 23 and MM between 00 and 59.
C29_FloatToClockFields ==
    \A k \in DayFractionCalls :
        \E h \in 0..23, m \in 0..59 :
            clock_log[k].result = Some(Format02d(h) \o << ":" >> \o Format02d(m))

\* C29 case: 0.083 of a day (119.52 minutes) has become "01:60".
C29_WitnessSixty ==
    \E k \in DayFractionCalls :
        /\ clock_log[k].argument = Some(IntTrueDiv(83, 1000))
        /\ clock_log[k].result = Some(<< "0", "1", ":", "6", "0" >>)

\* C29 case: the minute 90 of a day has become "01:30".
C29_WitnessMinuteOfDay ==
    \E k \in DayFractionCalls :
        /\ clock_log[k].argument = Some(IntTrueDiv(90, 1440))
        /\ clock_log[k].result = Some(<< "0", "1", ":", "3", "0" >>)

-----------------------------------------------------------------------------
(* C23: the store changes through "load a year" and "clear all years" *)

\* the year entries of a store: every entry but the uploads waiting to be
\* processed
YearEntries(d) == [ k \in DOMAIN d \ { TEMP_DF } |-> d[k] ]

\* the last callback was the click on the clear button
Cleared ==
    /\ callback_output.callback = "update_loaded_datasets"
    /\ callback_output.args = << "clear-all-datasets-btn" >>

\* the last callback was process_data and it has stored the year Y
Loaded(Y) ==
    /\ callback_output.callback = "process_data"
    /\ callback_output.years = { Y }

\* the last callback was a comparison that found both years in the store
Compared ==
    /\ callback_output.callback = "update_comparison_results"
    /\ IsNone(callback_output.raised)

\* the year entries of the dict of the callbacks or of the dict the display
\* reads are not the same after the step
YearsChange ==
    YearEntries(datasets') # YearEntries(datasets) \/ YearEntries(app_datasets') # YearEntries(app_datasets)

\* C23: the year entries of the store change only in a "load a year" step,
\* which adds the year Y to what the display and the comparison see, and in
\* a "clear all years" step, after which the store the analysis and the
\* comparison read holds no year; the display and the comparison see the
\* same years in every state, so that a comparison finds only years the
\* display shows and after a clear and a load of Y both see exactly Y.
C23_LoadAndClearOnly ==
    /\ [][YearsChange => \/ Cleared'
                         \/ \E Y \in YearSelections :
                               /\ Loaded(Y)'
                               /\ DOMAIN YearEntries(datasets') = DOMAIN YearEntries(datasets) \cup { Y }
                               /\ DOMAIN YearEntries(app_datasets') =
                                     DOMAIN YearEntries(app_datasets) \cup { Y }]_vars
    /\ [](Cleared => DOMAIN YearEntries(datasets) = { } /\ DOMAIN YearEntries(app_datasets) = { })
    /\ [](DOMAIN YearEntries(app_datasets) = DOMAIN YearEntries(datasets))
    /\ [](Compared => callback_output.years \subseteq DOMAIN YearEntries(app_datasets))

\* C23 case: the clear button has been clicked after a load and the dict the
\* comparison reads still holds the year.
C23_WitnessNotCleared ==
    /\ Cleared
    /\ DOMAIN YearEntries(app_datasets) = { }
    /\ DOMAIN YearEntries(datasets) # { }

\* C23 case: after a clear the comparison has found two years the display
\* does not show.
C23_WitnessStaleComparison ==
    /\ rebound
    /\ Compared
    /\ callback_output.years # { }
    /\ DOMAIN YearEntries(app_datasets) = { }

\* C23 case: a year has been loaded after a clear; the display, which reads
\* the new dict, does not show it.
C23_WitnessLoadNotShown ==
    /\ rebound
    /\ \E Y \in YearSelections : Loaded(Y) /\ Y \notin DOMAIN app_datasets

\* C23 case: before any clear, a load has put the year into the one dict
\* both read.
C23_WitnessLoaded ==
    /\ ~rebound
    /\ \E Y \in YearSelections : Loaded(Y) /\ Y \in DOMAIN app_datasets
    /\ app_datasets = datasets

-----------------------------------------------------------------------------
(* C30: the keys of the store and the years offered as the later year *)

\* the last callback was update_later_year_options
LaterYearsOffered == callback_output.callback = "update_later_year_options"

\* C30: every key of the store is an inspection year and its value holds
\* the joints and the defects table of that year; the years
\* update_later_year_options offers are loaded years greater than the
\* selected earlier year.
C30_KeysAreLoadedYears ==
    /\ \A d \in { datasets, app_datasets } :
           \A year \in DOMAIN d :
               /\ year \in YearSelections
               /\ { JOINTS_DF, DEFECTS_DF } \subseteq DOMAIN d[year]
    /\ LaterYearsOffered =>
           /\ IsNone(callback_output.raised)
           /\ \A year \in callback_output.years :
                  /\ year \in valid_datasets(datasets)
                  /\ KeyLess(StrKey(callback_output.args[1]), year)

\* C30 case: a file has been uploaded and processed; the key "temp_df"
\* stays in the store, with an empty dict for its value.
C30_WitnessTempKey ==
    /\ callback_output.callback = "process_data"
    /\ IsNone(callback_output.raised)
    /\ TEMP_DF \in DOMAIN datasets
    /\ datasets[TEMP_DF] = EmptyDict

\* C30 case: "temp_df" has been offered as a later year: it is a key of the
\* store and, as a text, greater than the text of every year.
C30_WitnessTempOffered ==
    /\ LaterYearsOffered
    /\ TEMP_DF \in callback_output.years
    /\ \E year \in YearSelections : year \in callback_output.years

\* C30 case: a year has been loaded under the int the year selector starts
\* with, and update_later_year_options has raised the TypeError of a
\* comparison of an int with a str.
C30_WitnessTypeError ==
    /\ LaterYearsOffered
    /\ callback_output.raised = Some("TypeError")
    /\ IntKey(MaxStoreYear) \in DOMAIN datasets

-----------------------------------------------------------------------------
(* C24: the nearest candidate, the first of several nearest ones *)

\* C24: an iteration that finds a candidate (an old defect not yet
\* consumed and within the tolerance of the new defect) adds the Match of
\* the new defect with a candidate of the least separation, the first in
\* the row order of the old table among the candidates of that separation;
\* distance_diff is that least separation.
C24_NearestCandidate ==
    [][ (Visiting /\ Candidates # { }) =>
          /\ Len(matches') = Len(matches) + 1
          /\ LET match == matches'[Len(matches')]
                 chosen == match.old_defect_id + 1
             IN /\ match.new_defect_id = pos - 1
                /\ chosen \in Candidates
                /\ match.distance_diff = Separation(chosen, pos)
                /\ \A k \in Candidates :
                       /\ match.distance_diff <= Separation(k, pos)
                       /\ Separation(k, pos) = match.distance_diff => chosen <= k ]_vars

\* C24 witness: the one new defect lies between two old defects, at the
\* tolerance from each, and was matched to the first of them.
C24_Witness ==
    /\ pc = "returned"
    /\ Len(new_defects_df.rows) = 1
    /\ Len(old_defects_df.rows) = 2
    /\ distance_tolerance > 0
    /\ old_defects_df.rows[1][COL_DIST] # old_defects_df.rows[2][COL_DIST]
    /\ Separation(1, 1) = distance_tolerance
    /\ Separation(2, 1) = distance_tolerance
    /\ Len(matches) = 1
    /\ matches[1].old_defect_id = 0
    /\ matches[1].distance_diff = distance_tolerance

\* C24 case: the second old defect is nearer than the first, both within
\* the tolerance; the new defect was matched to the second.
C24_WitnessSecondNearer ==
    /\ pc = "returned"
    /\ Len(new_defects_df.rows) = 1
    /\ Len(old_defects_df.rows) = 2
    /\ Separation(2, 1) < Separation(1, 1)
    /\ Separation(1, 1) <= distance_tolerance
    /\ Len(matches) = 1
    /\ matches[1].old_defect_id = 1
    /\ matches[1].distance_diff = Separation(2, 1)

\* C24 case: the nearest old defect of the second new defect was consumed
\* by the first; the second was matched to the nearest one left.
C24_WitnessAmongUnconsumed ==
    /\ C4_Witness
    /\ \E b \in DOMAIN matches :
           /\ matches[b].new_defect_id = 1
           /\ matches[b].distance_diff > Separation(Nearest(2), 2)

-----------------------------------------------------------------------------
(* C26: the matching is maximal *)

\* the new row positions the result reports as new defects
ReportedNew == { r["defect_id"] + 1 : r \in Range(Val(results).new_defects) }

\* the old row positions in no Match of the result
UnmatchedOld ==
    { k \in DOMAIN old_defects_df.rows :
        \A a \in DOMAIN Val(results).matches_df.rows :
            Val(results).matches_df.rows[a].old_defect_id # k - 1 }

\* C26: in the returned result no new defect reported as new lies within
\* the tolerance of an old defect that is in no Match: every old defect
\* within the tolerance of a new defect reported as new is in the Match of
\* another new defect.
C26_Maximal ==
    ~IsNone(results) =>
        \A j \in ReportedNew :
            \A k \in DOMAIN old_defects_df.rows :
                Separation(k, j) <= distance_tolerance =>
                    /\ k \notin UnmatchedOld
                    /\ \E a \in DOMAIN Val(results).matches_df.rows :
                           /\ Val(results).matches_df.rows[a].old_defect_id = k - 1
                           /\ Val(results).matches_df.rows[a].new_defect_id # j - 1

\* C26 witness: a new defect is reported as new although an old defect
\* lies at the tolerance from it; that old defect is in the Match of the
\* other new defect, and another old defect, farther away, is in no Match.
C26_Witness ==
    /\ pc = "returned"
    /\ distance_tolerance > 0
    /\ UnmatchedOld # { }
    /\ \E j \in ReportedNew :
           \E k \in DOMAIN old_defects_df.rows :
               /\ Separation(k, j) = distance_tolerance
               /\ k \notin UnmatchedOld

-----------------------------------------------------------------------------
(* C25: the matching debug view *)

\* the (new row, old row) positions within twice the tolerance
NearPairs ==
    { p \in (DOMAIN new_defects_df.rows) \X (DOMAIN old_defects_df.rows) :
        Separation(p[2], p[1]) <= 2 * distance_tolerance }

\* the place of a pair among the near pairs, new rows first, old rows
\* second, each in table order
Place(j, k) ==
    Cardinality({ p \in NearPairs : p[1] < j \/ (p[1] = j /\ p[2] <= k) })

\* C25: the view has one row for every pair of a new and an old defect
\* whose separation is at most twice the tolerance, whether or not either
\* is in a Match, with the two distances and their difference; would_match
\* is true exactly in the rows whose difference is at most the tolerance;
\* every Match of the comparison of the same tables with the same
\* tolerance has its row, and would_match is true in it.
C25_DebugView ==
    ~IsNone(merged_view) =>
        LET view == Val(merged_view)
        IN /\ Len(view) = Cardinality(NearPairs)
           /\ \A p \in NearPairs :
                  LET row == view[Place(p[1], p[2])]
                  IN /\ row.new_dist = new_defects_df.rows[p[1]][COL_DIST]
                     /\ row.old_dist = old_defects_df.rows[p[2]][COL_DIST]
                     /\ row.distance_diff = Separation(p[2], p[1])
           /\ \A a \in DOMAIN view :
                  view[a].would_match <=> view[a].distance_diff <= distance_tolerance
           /\ \A b \in DOMAIN Val(results).matches_df.rows :
                  LET match == Val(results).matches_df.rows[b]
                      j == match.new_defect_id + 1
                      k == match.old_defect_id + 1
                  IN /\ << j, k >> \in NearPairs
                     /\ view[Place(j, k)].would_match
                     /\ view[Place(j, k)].new_dist = match.log_dist
                     /\ view[Place(j, k)].distance_diff = match.distance_diff

\* C25 witness: the view of a comparison with one Match has two would_match
\* rows (the old defect of the Match is listed with both new defects) and a
\* row of a pair farther apart than the tolerance.
C25_Witness ==
    /\ ~IsNone(merged_view)
    /\ distance_tolerance > 0
    /\ Len(Val(results).matches_df.rows) = 1
    /\ Cardinality({ a \in DOMAIN Val(merged_view) : Val(merged_view)[a].would_match }) = 2
    /\ \E a \in DOMAIN Val(merged_view) :
           /\ ~Val(merged_view)[a].would_match
           /\ Val(merged_view)[a].distance_diff = 2 * distance_tolerance

\* C25 case: no pair lies within twice the tolerance and the view is empty.
C25_WitnessEmpty ==
    /\ ~IsNone(merged_view)
    /\ Val(merged_view) = << >>
    /\ Len(old_defects_df.rows) > 0
    /\ Len(new_defects_df.rows) > 0

-----------------------------------------------------------------------------
(* C27: no wall thickness in a defects table of the splitter *)

\* the keys of growth_stats that are in millimetres
MmStatistics == { "avg_growth_rate_mm", "avg_positive_growth_rate_mm", "max_growth_rate_mm" }

\* C27: the survey processed has the wall-thickness column and the defects
\* table made from it has not; in the comparison of two defects tables of
\* the splitter has_wt_data is false, no Match has a millimetre field and
\* growth_stats has no millimetre statistic.
C27_NoWallThickness ==
    /\ COL_WT \in standardized_df.columns
    /\ \A k \in DOMAIN returned : COL_WT \notin returned[k].defects_df.columns
    /\ COL_WT \notin old_defects_df.columns \cup new_defects_df.columns
    /\ ~has_wt_data
    /\ \A a \in DOMAIN matches : DOMAIN matches[a] \cap MmFields = { }
    /\ ~IsNone(results) =>
           /\ ~Val(results).has_wt_data
           /\ Val(results).matches_df.columns \cap MmFields = { }
           /\ \A a \in DOMAIN Val(results).matches_df.rows :
                  DOMAIN Val(results).matches_df.rows[a] \cap MmFields = { }
           /\ ~IsNone(Val(results).growth_stats) =>
                  DOMAIN Val(Val(results).growth_stats) \cap MmStatistics = { }

\* C27 witness: every record of the later survey has a wall thickness of
\* 8 mm; the comparison has returned a Match with the depth fields, from 5 %
\* to 10 % in one year, and growth statistics.
C27_Witness ==
    /\ pc = "returned"
    /\ \A k \in DOMAIN standardized_df.rows : standardized_df.rows[k][COL_WT] = Some("8")
    /\ has_depth_data
    /\ calculate_growth
    /\ ~IsNone(Val(results).growth_stats)
    /\ \E a \in DOMAIN matches :
           /\ DepthFields \subseteq DOMAIN matches[a]
           /\ matches[a].old_depth_pct = Some(5)
           /\ matches[a].new_depth_pct = Some(10)

=============================================================================
